---- MODULE Spec2Model ----
(***************************************************************************)
(* Call-graph construction of LLVMBasedICFG (phasar).                      *)
(*                                                                         *)
(* The model follows LLVMBasedICFG::Builder: the entry-point lookup, the   *)
(* worklist seeding, the do-while fixed-point loop of buildCallGraph, the  *)
(* intra-procedural scan processFunction and the indirect-call resolution  *)
(* constructDynamicCall.  The IR, the entry list and the resolver are      *)
(* inputs: the IR and the entry list are drawn in Init, the resolver's     *)
(* answer is drawn at every query (Spec), or is a function of the          *)
(* instructions announced to the resolver (ClientSpec, which also          *)
(* constructs the graph a second time and queries it).  CliSpec puts the   *)
(* construction behind main of phasar-llvm and its option validation.      *)
(***************************************************************************)
EXTENDS Integers, Sequences, FiniteSets, Bags, TLC

(***************************************************************************)
(* Bounds of the model.                                                    *)
(***************************************************************************)
\* largest target set a resolver query answers with
MaxTargets == 2
\* the pass counter saturates here (the code never gets there, see PassBound)
MaxPasses == 12

(***************************************************************************)
(* The IR: functions, instructions, call sites.                            *)
(***************************************************************************)
\* the functions of the IRDB, by name
Funcs == {"main", "f", "g"}

\* a name no function of the IRDB carries
NoSuchName == "nosuch"

\* the sentinel of initEntryPoints
AllSentinel == "__ALL__"

\* the name of the function buildCRuntimeGlobalCtorsDtorsModel builds
GlobCtorName == "__psrCRuntimeGlobalCtorsModel"

\* the null function pointer
NoFunction == "nullptr"

\* what the virtual-call test reads off a call: whether getReceiverType
\* finds a receiver type, whether the type hierarchy has that type, whether
\* it has a vtable for it, and the result of getVFTIndex
Receiver(known, vtable, index) ==
    [RecType |-> TRUE, hasType |-> known, hasVFTable |-> vtable, VFTIndex |-> index]

\* a call without a receiver: getReceiverType returns nullptr
NoReceiver ==
    [RecType |-> FALSE, hasType |-> FALSE, hasVFTable |-> FALSE, VFTIndex |-> -1]

\* a non-call instruction
OtherInst == [kind |-> "other", name |-> "-", recv |-> NoReceiver]
\* a call whose called operand is inline assembly
AsmCall == [kind |-> "asm", name |-> "-", recv |-> NoReceiver]
\* a call through an unnamed value (a loaded function pointer, a vtable slot)
PtrCall == [kind |-> "ptr", name |-> "-", recv |-> NoReceiver]
\* a direct call: getCalledFunction() is the function g
DirectCall(g) == [kind |-> "direct", name |-> g, recv |-> NoReceiver]
\* a call whose operand is, after stripPointerCasts, a value named nm
NamedCall(nm) == [kind |-> "named", name |-> nm, recv |-> NoReceiver]

\* a call through a vtable slot of a receiver the type hierarchy knows
VirtCall == [kind |-> "virt", name |-> "-", recv |-> Receiver(TRUE, TRUE, 0)]

\* a call through an unnamed value with a receiver r
ReceiverCall(r) == [kind |-> "ptr", name |-> "-", recv |-> r]

\* the bodies of main: static calls only, two sites with one callee, a store
\* followed by a function-pointer call, an unresolved site followed by a
\* static one, inline assembly only, operands resolved and not resolved by
\* name, a virtual call
MainBodies ==
    {<<DirectCall("f"), DirectCall("g")>>,
     <<DirectCall("f"), DirectCall("f")>>,
     <<OtherInst, PtrCall>>,
     <<PtrCall, DirectCall("f")>>,
     <<AsmCall, OtherInst>>,
     <<NamedCall("g"), NamedCall(NoSuchName)>>,
     <<VirtCall>>}

\* the bodies of f: a declaration, a leaf, self-recursion, a call back into
\* main, a call followed by inline assembly
FBodies ==
    {<<>>, <<OtherInst>>, <<DirectCall("f")>>, <<DirectCall("main")>>,
     <<DirectCall("g"), AsmCall>>}

\* the bodies of g: a declaration, a leaf, inline assembly only
GBodies == {<<>>, <<OtherInst>>, <<AsmCall>>}

\* a module that defines no function
NoDefinitions == [main |-> <<>>, f |-> <<>>, g |-> <<>>]

\* the IRs of the model: a body per function, the empty body is a declaration
Programs ==
    {[main |-> a, f |-> b, g |-> c] : a \in MainBodies, b \in FBodies, c \in GBodies}
      \cup {NoDefinitions}

\* the entry lists of the model
EntryLists == {<<>>, <<"main">>, <<AllSentinel>>, <<NoSuchName, "f">>}

\* the target sets a resolver may answer with
Answers == {T \in SUBSET Funcs : Cardinality(T) <= MaxTargets}

VARIABLES
    ir,                 \* the IR: function name -> sequence of instructions
    EntryPoints,        \* the entry list handed to the constructor
    IncludeGlobals,     \* the IncludeGlobals flag handed to the constructor
    NumberOfModules,    \* IRDB->getNumberOfModules()
    pc,                 \* position in the constructor / buildCallGraph
    UserEntryPoints,    \* Builder::UserEntryPoints
    EntryWarnings,      \* entry names warned about by initEntryPoints
    FunctionWL,         \* Builder::FunctionWL
    VisitedFunctions,   \* Builder::VisitedFunctions
    FunctionVertexMap,  \* LLVMBasedICFG::FunctionVertexMap
    Vertices,           \* vertices of the call graph: vertex id -> function
    Edges,              \* edges of the call graph, in insertion order
    IndirectCalls,      \* Builder::IndirectCalls
    FixpointReached,    \* the local of buildCallGraph
    todo,               \* sites the range-for over IndirectCalls still visits
    passes,             \* number of started bodies of the do-while loop
    Verdict,            \* latest resolver answer per queried site
    Shrunk,             \* sites for which some answer was no superset of the one before
    hookLog,            \* resolver hooks issued by the latest handler
    Warnings,           \* the bag of "No callees found" warnings, by site
    scans,              \* function -> number of times processFunction walked its body
    announced,          \* instructions handed to the resolver's hooks so far
    asked,              \* the bag of sites the range-for of the current pass has queried
    oracle,             \* the resolver plugged into the builder
    run,                \* number of the construction a client is running
    firstGraph,         \* the graph the client's first construction returned
    lastQuery,          \* the client's latest query of the graph and its result
    opts,               \* the command-line options of phasar-llvm
    mainPc,             \* position in main of phasar-llvm
    diag,               \* the diagnostics main wrote to llvm::errs()
    exitStatus,         \* how the phasar-llvm process ended
    flow                \* a MapFactsAlongsideCallSite object and its latest call

\* the constructor's arguments besides the IR
inputs == <<EntryPoints, IncludeGlobals, NumberOfModules>>

\* what the builder never writes
outer == <<oracle, run, firstGraph, lastQuery, opts, mainPc, diag, exitStatus, flow>>

vars == <<ir, inputs, pc, UserEntryPoints, EntryWarnings, FunctionWL,
          VisitedFunctions, FunctionVertexMap, Vertices, Edges, IndirectCalls,
          FixpointReached, todo, passes, Verdict, Shrunk, hookLog, Warnings,
          scans, announced, asked, outer>>

(***************************************************************************)
(* Helpers.                                                                *)
(***************************************************************************)
Range(s) == {s[i] : i \in DOMAIN s}

\* the orders in which a set can be iterated
Orders(S) ==
    {s \in [1..Cardinality(S) -> S] : \A i, j \in DOMAIN s : i # j => s[i] # s[j]}

\* the empty map
EmptyMap == [x \in {} |-> 0]

\* isDeclaration that takes every function for a definition
isDeclarationNever(F) == FALSE

\* F->isDeclaration()
isDeclaration(F) == Len(ir[F]) = 0

\* the instruction handles of the IR: <<function, index>>
Insts == UNION {{<<F, i>> : i \in DOMAIN ir[F]} : F \in DOMAIN ir}

\* the instruction behind a handle
InstOf(n) == ir[n[1]][n[2]]

\* Inst->getFunction()
getFunction(n) == n[1]

\* llvm::isa<llvm::CallBase>
isCallBase(I) == I.kind # "other"

\* IRDB->getFunction(name)
IRDBgetFunction(nm) == IF nm \in Funcs THEN nm ELSE NoFunction

\* IRDB->getFunctionDefinition(name)
getFunctionDefinition(nm) ==
    IF nm \in Funcs /\ ~isDeclaration(nm) THEN nm ELSE NoFunction

\* a resolver hook announced for instruction n
Hook(h, n) == [hook |-> h, inst |-> n]

\* the callee processFunction reads off the call instruction: getCalledFunction(),
\* else the function named like the cast-stripped operand, else none
StaticCallee(I) ==
    IF I.kind = "direct" THEN I.name
    ELSE IF I.kind = "named" THEN IRDBgetFunction(I.name)
    ELSE NoFunction

\* isInlineAsm that recognises no operand
isInlineAsmNever(I) == FALSE

\* llvm::isa<llvm::InlineAsm>(SV)
isInlineAsm(I) == I.kind = "asm"

\* internalIsVirtualFunctionCall without the test of the vtable index
internalIsVirtualFunctionCallNoIndex(I) ==
    isCallBase(I) /\ I.recv.RecType /\ I.recv.hasType /\ I.recv.hasVFTable

\* internalIsVirtualFunctionCall: receiver type found, known to the type
\* hierarchy, with a vtable, and a vtable index >= 0
internalIsVirtualFunctionCall(I) ==
    IF ~isCallBase(I) THEN FALSE
    ELSE IF ~I.recv.RecType THEN FALSE
    ELSE IF ~I.recv.hasType THEN FALSE
    ELSE IF ~I.recv.hasVFTable THEN FALSE
    ELSE I.recv.VFTIndex >= 0

(***************************************************************************)
(* The builder's mutable state as a record b, threaded through a handler:  *)
(*   fvm FunctionVertexMap, vs Vertices, es Edges, wl FunctionWL,          *)
(*   ic IndirectCalls, vis VisitedFunctions, fix the handler's result,     *)
(*   hooks the resolver hooks issued so far, scans the ghost counter of    *)
(*   walked bodies.                                                        *)
(***************************************************************************)
Snapshot ==
    [fvm |-> FunctionVertexMap, vs |-> Vertices, es |-> Edges, wl |-> FunctionWL,
     ic |-> IndirectCalls, vis |-> VisitedFunctions, fix |-> TRUE, hooks |-> <<>>,
     scans |-> scans]

\* getOrAddVertex without the lookup: a fresh vertex on every call
getOrAddVertexAlways(b, F) ==
    [b EXCEPT !.vs = Append(@, F),
              !.fvm = [x \in DOMAIN @ \cup {F} |-> IF x = F THEN Len(b.vs) + 1 ELSE @[x]]]

\* FunctionVertexMap->try_emplace(F) followed by boost::add_vertex when inserted
getOrAddVertex(b, F) ==
    IF F \in DOMAIN b.fvm THEN b
    ELSE [b EXCEPT !.vs = Append(@, F),
                   !.fvm = @ @@ (F :> Len(b.vs) + 1)]

\* boost::add_edge(src, tgt, EdgeProperties(CS), CallGraph)
addEdge(es, src, tgt, CS) == Append(es, [src |-> src, tgt |-> tgt, CS |-> CS])

\* LinkTarget that forgets FunctionWL.push_back
LinkTargetNoPush(b, v, CS, t) ==
    LET b1 == getOrAddVertex(b, t)
    IN  [b1 EXCEPT !.es = addEdge(@, v, b1.fvm[t], CS)]

\* LinkTarget with the endpoints of add_edge swapped
LinkTargetSwapped(b, v, CS, t) ==
    LET b1 == getOrAddVertex(b, t)
    IN  [b1 EXCEPT !.es = addEdge(@, b1.fvm[t], v, CS),
                   !.wl = Append(@, t)]

\* one round of the loop over PossibleTargets: vertex, edge, worklist push
LinkTarget(b, v, CS, t) ==
    LET b1 == getOrAddVertex(b, t)
    IN  [b1 EXCEPT !.es = addEdge(@, v, b1.fvm[t], CS),
                   !.wl = Append(@, t)]

\* RecordIndirect starting the count at one
RecordIndirectOne(ic, n) ==
    IF n \in DOMAIN ic THEN [ic EXCEPT ![n] = 1] ELSE ic @@ (n :> 1)

\* IndirectCalls[CS] = 0
RecordIndirect(ic, n) ==
    IF n \in DOMAIN ic THEN [ic EXCEPT ![n] = 0] ELSE ic @@ (n :> 0)

\* SkipFunction that looks at isDeclaration only
SkipFunctionDeclOnly(F, vis) == isDeclaration(F)

\* SkipFunction that looks at VisitedFunctions only
SkipFunctionVisitedOnly(F, vis) == F \in vis

\* the early return of processFunction
SkipFunction(F, vis) == isDeclaration(F) \/ F \in vis

\* AnnounceOther that announces nothing
AnnounceNothing(hooks, n) == hooks

\* Res->otherInst(&I)
AnnounceOther(hooks, n) == Append(hooks, Hook("otherInst", n))

\* the loop of processFunction over the instructions of F, from index i on
RECURSIVE Walk(_, _, _, _)
Walk(b, F, v, i) ==
    IF i > Len(ir[F]) THEN b
    ELSE
      LET n == <<F, i>>
          I == ir[F][i]
      IN
      IF isCallBase(I) THEN
        LET b1 == [b EXCEPT !.hooks = Append(@, Hook("preCall", n))]
            callee == StaticCallee(I)
        IN
        IF callee # NoFunction THEN
          LET b2 == [b1 EXCEPT !.hooks = Append(@, Hook("handlePossibleTargets", n))]
              b3 == LinkTarget(b2, v, n, callee)
              b4 == [b3 EXCEPT !.hooks = Append(@, Hook("postCall", n))]
          IN  Walk(b4, F, v, i + 1)
        ELSE IF isInlineAsm(I) THEN Walk(b1, F, v, i + 1)
        ELSE Walk([b1 EXCEPT !.ic = RecordIndirect(@, n), !.fix = FALSE],
                  F, v, i + 1)
      ELSE
        Walk([b EXCEPT !.hooks = AnnounceOther(@, n)], F, v, i + 1)

\* one more walk of the body of F
Bump(m, F) == IF F \in DOMAIN m THEN [m EXCEPT ![F] = @ + 1] ELSE m @@ (F :> 1)

\* processFunction that never inserts F into VisitedFunctions
processFunctionUnmarked(b, F) ==
    IF SkipFunction(F, b.vis) THEN b
    ELSE
      LET b2 == getOrAddVertex([b EXCEPT !.scans = Bump(@, F)], F)
      IN  Walk(b2, F, b2.fvm[F], 1)

\* processFunction that walks F without giving it a vertex
processFunctionNoVertex(b, F) ==
    IF SkipFunction(F, b.vis) THEN b
    ELSE Walk([b EXCEPT !.vis = @ \cup {F}, !.scans = Bump(@, F)], F, 0, 1)

\* processFunction(CallGraph, F); the result's fix is the returned FixpointReached
processFunction(b, F) ==
    IF SkipFunction(F, b.vis) THEN b
    ELSE
      LET b1 == [b EXCEPT !.vis = @ \cup {F}, !.scans = Bump(@, F)]
          b2 == getOrAddVertex(b1, F)
      IN  Walk(b2, F, b2.fvm[F], 1)

\* FoundMore comparing for inequality
FoundMoreOrLess(num, T) == num # Cardinality(T)

\* FoundMore that takes as many targets as before for progress
FoundMoreOrEqual(num, T) == num <= Cardinality(T)

\* NumIndCalls < PossibleTargets.size()
FoundMore(num, T) == num < Cardinality(T)

\* ThrowOutFound that erases nothing
ThrowOutNothing(T, b, v, CS) == T

\* ThrowOutFound that erases every target
ThrowOutAll(T, b, v, CS) == {}

\* "Throw out already found targets"
ThrowOutFound(T, b, v, CS) ==
    T \ {b.vs[e.tgt] : e \in {x \in Range(b.es) : x.src = v /\ x.CS = CS}}

\* InsertTargets leaving the loop after its first round
InsertTargetsFirstOnly(b, v, CS, order) ==
    IF order = <<>> THEN b ELSE LinkTarget(b, v, CS, Head(order))

\* the loop of constructDynamicCall over the remaining targets, in iteration order
RECURSIVE InsertTargets(_, _, _, _)
InsertTargets(b, v, CS, order) ==
    IF order = <<>> THEN b
    ELSE InsertTargets(LinkTarget(b, v, CS, Head(order)), v, CS, Tail(order))

\* CallerVertex taking the vertex added last
CallerVertexLast(fvm, CS) == Cardinality(DOMAIN fvm)

\* the vertex constructDynamicCall starts its edges from
CallerVertex(fvm, CS) == fvm[getFunction(CS)]

\* the hook of the resolve query
ResolveHook(I) ==
    IF internalIsVirtualFunctionCall(I) THEN "resolveVirtualCall"
    ELSE "resolveFunctionPointer"

\* UpdateCount assigning on every query
UpdateCountAlways(ic, CS, T) == [ic EXCEPT ![CS] = Cardinality(T)]

\* UpdateCount that counts one more target on progress
UpdateCountByOne(ic, CS, T) ==
    IF FoundMore(ic[CS], T) THEN [ic EXCEPT ![CS] = @ + 1] ELSE ic

\* the counter update of constructDynamicCall: NumIndCalls = PossibleTargets.size()
\* when more targets were found
UpdateCount(ic, CS, T) ==
    IF FoundMore(ic[CS], T) THEN [ic EXCEPT ![CS] = Cardinality(T)] ELSE ic

\* constructDynamicCall that links new targets and still returns false
constructDynamicCallSilent(b, CS, T, order) ==
    LET b1 == [b EXCEPT !.ic = UpdateCount(@, CS, T)]
    IN  IF ~FoundMore(b.ic[CS], T) THEN b1
        ELSE InsertTargets(b1, CallerVertex(b.fvm, CS), CS, order)

\* constructDynamicCall(CallGraph, CS) when the caller has a vertex; T is the
\* resolver's answer, order the iteration order of the remaining targets;
\* fix = FALSE stands for the returned NewTargetsFound = true
constructDynamicCall(b, CS, T, order) ==
    LET v == CallerVertex(b.fvm, CS)
    IN
    IF isCallBase(InstOf(CS)) THEN
      LET b1 == [b EXCEPT !.hooks = <<Hook("preCall", CS),
                                      Hook(ResolveHook(InstOf(CS)), CS)>>,
                          !.ic = UpdateCount(@, CS, T)]
      IN
      IF ~FoundMore(b.ic[CS], T) THEN b1
      ELSE
        LET b2 == [b1 EXCEPT !.fix = FALSE,
                             !.hooks = Append(@, Hook("handlePossibleTargets", CS))]
            b3 == InsertTargets(b2, v, CS, order)
        IN  [b3 EXCEPT !.hooks = Append(@, Hook("postCall", CS))]
    ELSE [b EXCEPT !.hooks = <<Hook("otherInst", CS)>>]

\* the targets constructDynamicCall still has to link for answer T
Remaining(b, CS, T) ==
    IF isCallBase(InstOf(CS)) /\ FoundMore(b.ic[CS], T)
    THEN ThrowOutFound(T, b, CallerVertex(b.fvm, CS), CS)
    ELSE {}

(***************************************************************************)
(* The resolver.                                                           *)
(***************************************************************************)
\* the instructions a sequence of hooks hands to the resolver
Told(hooks) == {h.inst : h \in Range(hooks)}

\* a resolver free to answer any target set at any query
AnyResolver == [kind |-> "any"]

\* a resolver whose answer is a function of the instructions announced so
\* far: for the sites of main it answers before until the instruction need
\* was announced and after from then on, for every other site it answers
\* other
OnTheFly(need, before, after, other) ==
    [kind |-> "otf", need |-> need, before |-> before, after |-> after,
     other |-> other]

\* the resolvers of a client's constructions
Oracles ==
    {OnTheFly(n, b, a, o) : n \in {<<"main", 1>>, <<"f", 1>>},
                            b \in Answers, a \in Answers,
                            o \in {{}, {"g"}, {"main", "f"}}}

\* the answers the resolver may give for site CS
ResolverAnswers(CS) ==
    IF oracle.kind = "any" THEN Answers
    ELSE IF getFunction(CS) # "main" THEN {oracle.other}
    ELSE IF oracle.need \in announced THEN {oracle.after}
    ELSE {oracle.before}

(***************************************************************************)
(* The constructor and buildCallGraph.                                     *)
(***************************************************************************)
\* LookupEntries leaving the loop at the first name without a definition
RECURSIVE LookupEntriesUntilMissing(_)
LookupEntriesUntilMissing(names) ==
    IF names = <<>> THEN <<>>
    ELSE IF getFunctionDefinition(Head(names)) = NoFunction THEN <<>>
         ELSE <<getFunctionDefinition(Head(names))>>
                 \o LookupEntriesUntilMissing(Tail(names))

\* the lookup loop of initEntryPoints over the listed names
RECURSIVE LookupEntries(_)
LookupEntries(names) ==
    IF names = <<>> THEN <<>>
    ELSE IF getFunctionDefinition(Head(names)) = NoFunction
         THEN LookupEntries(Tail(names))
         ELSE <<getFunctionDefinition(Head(names))>> \o LookupEntries(Tail(names))

\* IRDB->getAllFunctions(), in the module's order
AllFunctions == <<"main", "f", "g">>

\* the __ALL__ loop of initEntryPoints: the named definitions
RECURSIVE AllDefinitions(_)
AllDefinitions(fs) ==
    IF fs = <<>> THEN <<>>
    ELSE IF ~isDeclaration(Head(fs))
         THEN <<getFunctionDefinition(Head(fs))>> \o AllDefinitions(Tail(fs))
         ELSE AllDefinitions(Tail(fs))

\* isAllSentinel that accepts the sentinel anywhere in the list
isAllSentinelAnywhere(names) == \E i \in DOMAIN names : names[i] = AllSentinel

\* the test of initEntryPoints for the sentinel
isAllSentinel(names) == Len(names) = 1 /\ names[1] = AllSentinel

\* the body of the function buildCRuntimeGlobalCtorsDtorsModel builds: after
\* the global initialisers it calls each user entry point, then returns
RECURSIVE CallEach(_)
CallEach(entries) ==
    IF entries = <<>> THEN <<>>
    ELSE <<DirectCall(Head(entries))>> \o CallEach(Tail(entries))

buildCRuntimeGlobalCtorsDtorsModel(entries) == CallEach(entries) \o <<OtherInst>>

\* the members of a new Builder and the empty graph
Unbuilt ==
    /\ UserEntryPoints = <<>>
    /\ EntryWarnings = <<>>
    /\ FunctionWL = <<>>
    /\ VisitedFunctions = {}
    /\ FunctionVertexMap = EmptyMap
    /\ Vertices = <<>>
    /\ Edges = <<>>
    /\ IndirectCalls = EmptyMap
    /\ FixpointReached = FALSE
    /\ todo = {}
    /\ passes = 0
    /\ Verdict = EmptyMap
    /\ Shrunk = {}
    /\ hookLog = <<>>
    /\ Warnings = EmptyBag
    /\ scans = EmptyMap
    /\ announced = {}
    /\ asked = EmptyBag

\* the builder and the graph when the constructor is entered
Fresh == pc = "initEntryPoints" /\ Unbuilt

\* the options phasar-llvm runs with when only the modules are named
DefaultOptions ==
    [strategy |-> "WholeProgram", module |-> <<"ll">>, out |-> "",
     pta |-> "CFLAnders", cg |-> "OTF", soundness |-> "Soundy",
     config |-> "", ptajson |-> ""]

\* the process is running
Running == [how |-> "running", code |-> 0]

\* the special value that stands for the zero fact
LLVMZeroValue == [name |-> "zero_value", isPointerTy |-> TRUE]

\* no flow function constructed
NoFlow ==
    [CB |-> <<>>, Predicate |-> "default", Source |-> LLVMZeroValue,
     Targets |-> {}, pc |-> "idle"]

\* the constructor is called by a client of the library, not by phasar-llvm
Library ==
    /\ opts = DefaultOptions
    /\ mainPc = "library"
    /\ diag = <<>>
    /\ exitStatus = Running
    /\ flow = NoFlow

\* no graph returned yet
NoGraph == [V |-> {}, E |-> {}, last |-> <<>>]

\* no query asked yet
NoQuery == [query |-> "-", arg |-> "-", result |-> <<>>]

\* the number of modules is read only when IncludeGlobals is set
Init ==
    /\ ir \in Programs
    /\ EntryPoints \in EntryLists
    /\ IncludeGlobals \in BOOLEAN
    /\ NumberOfModules \in (IF IncludeGlobals THEN {1, 2} ELSE {1})
    /\ oracle = AnyResolver
    /\ run = 1
    /\ firstGraph = NoGraph
    /\ lastQuery = NoQuery
    /\ Library
    /\ Fresh

\* Builder::initEntryPoints
InitEntryPoints ==
    /\ pc = "initEntryPoints"
    /\ pc' = "initGlobalsAndWorkList"
    /\ IF isAllSentinel(EntryPoints)
       THEN /\ UserEntryPoints' = AllDefinitions(AllFunctions)
            /\ EntryWarnings' = <<>>
       ELSE /\ UserEntryPoints' = LookupEntries(EntryPoints)
            /\ EntryWarnings' =
                 SelectSeq(EntryPoints, LAMBDA nm : getFunctionDefinition(nm) = NoFunction)
    /\ UNCHANGED <<ir, inputs, outer, FunctionWL, VisitedFunctions, FunctionVertexMap,
                   Vertices, Edges, IndirectCalls, FixpointReached, todo, passes,
                   Verdict, Shrunk, hookLog, scans, announced, asked, Warnings>>

\* Builder::initGlobalsAndWorkList.  With IncludeGlobals and more than one
\* module the assert fails: a build with assertions aborts there, a build
\* without them goes on with the module getWPAModule() answers.
InitGlobalsAndWorkList ==
    /\ pc = "initGlobalsAndWorkList"
    /\ IF IncludeGlobals
       THEN \/ /\ NumberOfModules # 1
               /\ pc' = "abort"
               /\ UNCHANGED <<ir, FunctionWL>>
            \/ /\ pc' = "do"
               /\ ir' = ir @@ (GlobCtorName :>
                                 buildCRuntimeGlobalCtorsDtorsModel(UserEntryPoints))
               /\ FunctionWL' = Append(FunctionWL, GlobCtorName)
       ELSE /\ pc' = "do"
            /\ ir' = ir
            /\ FunctionWL' = FunctionWL \o UserEntryPoints
    /\ UNCHANGED <<inputs, outer, UserEntryPoints, EntryWarnings, VisitedFunctions,
                   FunctionVertexMap, Vertices, Edges, IndirectCalls, FixpointReached,
                   todo, passes, Verdict, Shrunk, hookLog, scans, announced, asked, Warnings>>

\* do { FixpointReached = true;
BeginPass ==
    /\ pc = "do"
    /\ pc' = "while"
    /\ FixpointReached' = TRUE
    /\ passes' = IF passes < MaxPasses THEN passes + 1 ELSE passes
    /\ asked' = EmptyBag
    /\ UNCHANGED <<ir, inputs, outer, UserEntryPoints, EntryWarnings, FunctionWL,
                   VisitedFunctions, FunctionVertexMap, Vertices, Edges, IndirectCalls,
                   todo, Verdict, Shrunk, hookLog, scans, announced, Warnings>>

\* one round of the while loop: pop_back_val and processFunction
ProcessFunction ==
    /\ pc = "while"
    /\ FunctionWL # <<>>
    /\ LET F == FunctionWL[Len(FunctionWL)]
           b == processFunction(
                    [Snapshot EXCEPT !.wl = SubSeq(FunctionWL, 1, Len(FunctionWL) - 1)], F)
       IN  /\ FunctionWL' = b.wl
           /\ VisitedFunctions' = b.vis
           /\ FunctionVertexMap' = b.fvm
           /\ Vertices' = b.vs
           /\ Edges' = b.es
           /\ IndirectCalls' = b.ic
           /\ FixpointReached' = (FixpointReached /\ b.fix)
           /\ hookLog' = b.hooks
           /\ scans' = b.scans
           /\ announced' = announced \cup Told(b.hooks)
           /\ asked' = asked
    /\ UNCHANGED <<ir, inputs, outer, pc, UserEntryPoints, EntryWarnings, todo, passes,
                   Verdict, Shrunk, Warnings>>

\* SitesToQuery that works on the sites without a target only
SitesToQueryDelta(ic) == {CS \in DOMAIN ic : ic[CS] = 0}

\* the sites the range-for visits: for (auto [CS, _] : IndirectCalls)
SitesToQuery(ic) == DOMAIN ic

\* the while loop ends, the range-for over IndirectCalls begins
WorkListDrained ==
    /\ pc = "while"
    /\ FunctionWL = <<>>
    /\ pc' = "for"
    /\ todo' = SitesToQuery(IndirectCalls)
    /\ UNCHANGED <<ir, inputs, outer, UserEntryPoints, EntryWarnings, FunctionWL,
                   VisitedFunctions, FunctionVertexMap, Vertices, Edges, IndirectCalls,
                   FixpointReached, passes, Verdict, Shrunk, hookLog, scans, announced, asked, Warnings>>

\* one round of the range-for: constructDynamicCall on the next site, with the
\* resolver answering T
ConstructDynamicCall ==
    /\ pc = "for"
    /\ \E CS \in todo :
         /\ todo' = todo \ {CS}
         /\ IF getFunction(CS) \notin DOMAIN FunctionVertexMap
            THEN /\ pc' = "terminate"
                 /\ UNCHANGED <<FunctionWL, VisitedFunctions, FunctionVertexMap,
                                Vertices, Edges, IndirectCalls, FixpointReached,
                                Verdict, Shrunk, hookLog, scans, announced, asked>>
            ELSE \E T \in ResolverAnswers(CS) :
                 \E order \in Orders(Remaining(Snapshot, CS, T)) :
                   LET b == constructDynamicCall(Snapshot, CS, T, order)
                   IN  /\ pc' = pc
                       /\ FunctionWL' = b.wl
                       /\ VisitedFunctions' = b.vis
                       /\ FunctionVertexMap' = b.fvm
                       /\ Vertices' = b.vs
                       /\ Edges' = b.es
                       /\ IndirectCalls' = b.ic
                       /\ FixpointReached' = (FixpointReached /\ b.fix)
                       /\ hookLog' = b.hooks
                       /\ scans' = b.scans
                       /\ announced' = announced \cup Told(b.hooks)
                       /\ asked' = asked (+) SetToBag({CS})
                       /\ Verdict' = [x \in DOMAIN Verdict \cup {CS} |->
                                        IF x = CS THEN T ELSE Verdict[x]]
                       /\ Shrunk' = IF CS \in DOMAIN Verdict /\ ~(Verdict[CS] \subseteq T)
                                    THEN Shrunk \cup {CS} ELSE Shrunk
    /\ UNCHANGED <<ir, inputs, outer, UserEntryPoints, EntryWarnings, passes, Warnings>>

\* } while (!FixpointReached);
LoopTest ==
    /\ pc = "for"
    /\ todo = {}
    /\ pc' = IF FixpointReached THEN "warn" ELSE "do"
    /\ UNCHANGED <<ir, inputs, outer, UserEntryPoints, EntryWarnings, FunctionWL,
                   VisitedFunctions, FunctionVertexMap, Vertices, Edges, IndirectCalls,
                   FixpointReached, todo, passes, Verdict, Shrunk, hookLog, scans, announced, asked, Warnings>>

\* Unresolved without the test of the count
UnresolvedAll(ic) == DOMAIN ic

\* the sites the loop after the do-while warns about: Targets == 0
Unresolved(ic) == {CS \in DOMAIN ic : ic[CS] = 0}

\* the warning loop after the do-while, then return Ret
WarnAndReturn ==
    /\ pc = "warn"
    /\ pc' = "done"
    /\ Warnings' = Warnings (+) SetToBag(Unresolved(IndirectCalls))
    /\ UNCHANGED <<ir, inputs, outer, UserEntryPoints, EntryWarnings, FunctionWL,
                   VisitedFunctions, FunctionVertexMap, Vertices, Edges, IndirectCalls,
                   FixpointReached, todo, passes, Verdict, Shrunk, hookLog, scans, announced, asked>>

Next ==
    \/ InitEntryPoints
    \/ InitGlobalsAndWorkList
    \/ BeginPass
    \/ ProcessFunction
    \/ WorkListDrained
    \/ ConstructDynamicCall
    \/ LoopTest
    \/ WarnAndReturn

Spec == Init /\ [][Next]_vars

\* the builder runs to completion on its calling thread
FairSpec == Init /\ [][Next]_vars /\ WF_vars(Next)

(***************************************************************************)
(* A client of the library: it constructs the ICFG of a program with an    *)
(* on-the-fly resolver, and constructs it a second time from the same      *)
(* inputs.                                                                 *)
(***************************************************************************)
\* the edges as (caller function, callee function, call site)
Triple(e) == <<Vertices[e.src], Vertices[e.tgt], e.CS>>

\* the graph as a client sees it: vertex set, edge set, and the edge an
\* iteration over the edges ends with
Graph ==
    [V |-> Range(Vertices), E |-> {Triple(e) : e \in Range(Edges)},
     last |-> IF Edges = <<>> THEN <<>> ELSE Triple(Edges[Len(Edges)])]

\* the programs of the client: a store before a function-pointer call, two
\* sites in main, a site in main and one in a callee, a site whose target
\* calls back into main
ClientPrograms ==
    {[main |-> <<OtherInst, PtrCall>>, f |-> <<OtherInst>>, g |-> <<OtherInst>>],
     [main |-> <<PtrCall, VirtCall>>, f |-> <<OtherInst>>, g |-> <<DirectCall("f")>>],
     [main |-> <<PtrCall>>, f |-> <<PtrCall, OtherInst>>, g |-> <<OtherInst>>],
     [main |-> <<DirectCall("g"), PtrCall>>, f |-> <<OtherInst, DirectCall("main")>>,
      g |-> <<>>]}

ClientInit ==
    /\ ir \in ClientPrograms
    /\ EntryPoints = <<"main">>
    /\ IncludeGlobals = FALSE
    /\ NumberOfModules = 1
    /\ oracle \in Oracles
    /\ run = 1
    /\ firstGraph = NoGraph
    /\ lastQuery = NoQuery
    /\ Library
    /\ Fresh

\* the client keeps the returned graph and calls the constructor again
ConstructAgain ==
    /\ pc = "done"
    /\ run = 1
    /\ run' = 2
    /\ firstGraph' = Graph
    /\ ir' = [F \in Funcs |-> ir[F]]
    /\ pc' = "initEntryPoints"
    /\ UserEntryPoints' = <<>>
    /\ EntryWarnings' = <<>>
    /\ FunctionWL' = <<>>
    /\ VisitedFunctions' = {}
    /\ FunctionVertexMap' = EmptyMap
    /\ Vertices' = <<>>
    /\ Edges' = <<>>
    /\ IndirectCalls' = EmptyMap
    /\ FixpointReached' = FALSE
    /\ todo' = {}
    /\ passes' = 0
    /\ Verdict' = EmptyMap
    /\ Shrunk' = {}
    /\ hookLog' = <<>>
    /\ Warnings' = EmptyBag
    /\ scans' = EmptyMap
    /\ announced' = {}
    /\ asked' = EmptyBag
    /\ lastQuery' = NoQuery
    /\ UNCHANGED <<inputs, oracle, opts, mainPc, diag, exitStatus, flow>>

\* FunctionVertexMap[F]: the lookup that inserts a default entry when F has
\* none
findOrInsert(fvm, F) ==
    IF F \in DOMAIN fvm THEN [fvm |-> fvm, found |-> TRUE, v |-> fvm[F]]
    ELSE [fvm |-> fvm @@ (F :> 0), found |-> TRUE, v |-> 0]

\* FunctionVertexMap.find(F): the map after the lookup, whether an entry was
\* found, and the vertex of the entry
find(fvm, F) ==
    IF F \in DOMAIN fvm THEN [fvm |-> fvm, found |-> TRUE, v |-> fvm[F]]
    ELSE [fvm |-> fvm, found |-> FALSE, v |-> 0]

\* boost::out_edges(v, CallGraph), in insertion order
out_edges(v) == SelectSeq(Edges, LAMBDA e : e.src = v)

\* LLVMBasedICFG::getCalleesOfCallAtImpl(Inst): the returned vector and the
\* FunctionVertexMap the call leaves behind
getCalleesOfCallAtImpl(Inst) ==
    IF ~isCallBase(InstOf(Inst)) THEN [fvm |-> FunctionVertexMap, Callees |-> <<>>]
    ELSE
      LET MapEntry == find(FunctionVertexMap, getFunction(Inst))
      IN
      IF ~MapEntry.found THEN [fvm |-> MapEntry.fvm, Callees |-> <<>>]
      ELSE
        LET hits == SelectSeq(out_edges(MapEntry.v), LAMBDA e : e.CS = Inst)
        IN  [fvm |-> MapEntry.fvm,
             Callees |-> [i \in DOMAIN hits |-> Vertices[hits[i].tgt]]]

\* the client asks the constructed graph for the callees of an instruction
QueryCallees ==
    /\ pc = "done"
    /\ \E Inst \in Insts :
         LET r == getCalleesOfCallAtImpl(Inst)
         IN  /\ lastQuery' = [query |-> "getCalleesOfCallAt", arg |-> Inst,
                              result |-> r.Callees]
             /\ FunctionVertexMap' = r.fvm
    /\ UNCHANGED <<ir, inputs, oracle, run, firstGraph, opts, mainPc, diag,
                   exitStatus, flow, pc, UserEntryPoints,
                   EntryWarnings, FunctionWL, VisitedFunctions, Vertices, Edges,
                   IndirectCalls, FixpointReached, todo, passes, Verdict, Shrunk,
                   hookLog, scans, announced, asked, Warnings>>

\* in_edges that iterates the out-edges of the vertex
in_edgesAsOut(v) == out_edges(v)

\* boost::in_edges(v, CallGraph), in insertion order
in_edges(v) == SelectSeq(Edges, LAMBDA e : e.tgt = v)

\* LLVMBasedICFG::getCallersOfImpl(Fun)
getCallersOfImpl(Fun) ==
    LET MapEntry == find(FunctionVertexMap, Fun)
    IN  IF ~MapEntry.found THEN <<>>
        ELSE LET ins == in_edges(MapEntry.v)
             IN  [i \in DOMAIN ins |-> ins[i].CS]

\* the client asks the constructed graph for the callers of a function
QueryCallers ==
    /\ pc = "done"
    /\ \E Fun \in DOMAIN ir :
         lastQuery' = [query |-> "getCallersOf", arg |-> Fun,
                       result |-> getCallersOfImpl(Fun)]
    /\ UNCHANGED <<ir, inputs, oracle, run, firstGraph, opts, mainPc, diag,
                   exitStatus, flow, pc, UserEntryPoints, EntryWarnings,
                   FunctionWL, VisitedFunctions, FunctionVertexMap, Vertices, Edges,
                   IndirectCalls, FixpointReached, todo, passes, Verdict, Shrunk,
                   hookLog, scans, announced, asked, Warnings>>

ClientNext ==
    \/ Next
    \/ ConstructAgain
    \/ QueryCallees
    \/ QueryCallers

ClientSpec == ClientInit /\ [][ClientNext]_vars

(***************************************************************************)
(* The command-line tool phasar-llvm: main validates the options, sets up  *)
(* the IRDB and constructs the AnalysisController, which constructs the    *)
(* ICFG.                                                                   *)
(***************************************************************************)
\* exit(c), or return c from main
Exit(c) == [how |-> "exit", code |-> c]

\* what a module path names: an .ll file, nothing, a directory, a file with
\* another extension
validModule(path) == path = "ll"

\* validOutput that accepts every path
validOutputAlways(out) == TRUE

\* OutDirOpt is empty or names a directory
validOutput(out) == out \in {"", "dir"}

\* the file option is empty or names an existing file that is no directory
validFile(path) == path \in {"", "file"}

\* the option sets of the model
OptionSets ==
    [strategy : {"WholeProgram", "None"},
     module : {<<"ll">>, <<"ll", "ll">>, <<"missing">>, <<"ll", "dir">>, <<"txt">>},
     out : {"", "dir", "missing"},
     pta : {"CFLAnders", "Invalid"},
     cg : {"OTF", "Invalid"},
     soundness : {"Soundy", "Invalid"},
     config : {"", "file", "missing"},
     ptajson : {"", "file", "missing"}]

\* the programs in the module files
CliPrograms ==
    {[main |-> <<OtherInst, PtrCall>>, f |-> <<OtherInst>>, g |-> <<>>],
     [main |-> <<DirectCall("f"), DirectCall("g")>>, f |-> <<DirectCall("g"), AsmCall>>,
      g |-> <<OtherInst>>]}

\* the values of --entry-points
CliEntryLists ==
    {<<>>, <<"main", NoSuchName>>, <<NoSuchName, "g", "f">>, <<AllSentinel>>,
     <<AllSentinel, "main">>}

CliInit ==
    /\ opts \in OptionSets
    /\ ir \in CliPrograms
    /\ EntryPoints \in CliEntryLists
    /\ IncludeGlobals \in BOOLEAN
    /\ NumberOfModules = Len(opts.module)
    /\ oracle = OnTheFly(<<"main", 1>>, {}, {"f"}, {})
    /\ run = 1
    /\ firstGraph = NoGraph
    /\ lastQuery = NoQuery
    /\ mainPc = "StrategyOpt"
    /\ diag = <<>>
    /\ exitStatus = Running
    /\ flow = NoFlow
    /\ pc = "idle"
    /\ Unbuilt

\* what no step of main before the AnalysisController writes
beforeController ==
    <<ir, inputs, oracle, run, firstGraph, lastQuery, opts, pc, UserEntryPoints,
      EntryWarnings, FunctionWL, VisitedFunctions, FunctionVertexMap, Vertices,
      Edges, IndirectCalls, FixpointReached, todo, passes, Verdict, Shrunk,
      hookLog, Warnings, scans, announced, asked, flow>>

\* one check of main at position at: when the option is bad, the message
\* goes to llvm::errs() and the process exits with 1, else main goes on
Check(at, bad, message, next) ==
    /\ mainPc = at
    /\ IF bad
       THEN /\ diag' = Append(diag, message)
            /\ exitStatus' = Exit(1)
            /\ mainPc' = "exited"
       ELSE /\ mainPc' = next
            /\ UNCHANGED <<diag, exitStatus>>
    /\ UNCHANGED beforeController

\* if (StrategyOpt == AnalysisStrategy::None) return 1
CheckStrategy ==
    Check("StrategyOpt", opts.strategy = "None", "Invalid analysis strategy!",
          "validateParamModule")

\* the message of validateParamModule, or "" when the modules are accepted
ModuleMessage(module) ==
    IF module = <<>> THEN "At least one LLVM target module is required!"
    ELSE IF \E i \in DOMAIN module : ~validModule(module[i])
         THEN "LLVM module does not exist!"
         ELSE ""

validateParamModule ==
    Check("validateParamModule", ModuleMessage(opts.module) # "",
          ModuleMessage(opts.module), "validateParamOutput")

validateParamOutput ==
    Check("validateParamOutput", ~validOutput(opts.out),
          "does not exist, a valid output directory is required!",
          "validateParamPointerAnalysis")

validateParamPointerAnalysis ==
    Check("validateParamPointerAnalysis", opts.pta = "Invalid",
          "'Invalid' is not a valid pointer analysis!",
          "validateParamCallGraphAnalysis")

validateParamCallGraphAnalysis ==
    Check("validateParamCallGraphAnalysis", opts.cg = "Invalid",
          "'Invalid' is not a valid call-graph analysis!", "validateSoundnessFlag")

validateSoundnessFlag ==
    Check("validateSoundnessFlag", opts.soundness = "Invalid",
          "'Invalid' is not a valid soundness level!", "validateParamAnalysisConfig")

validateParamAnalysisConfig ==
    Check("validateParamAnalysisConfig", ~validFile(opts.config),
          "Analysis configuration does not exist!", "validatePTAJsonFile")

validatePTAJsonFile ==
    Check("validatePTAJsonFile", ~validFile(opts.ptajson),
          "Points-to info file does not exist!", "IRDB")

\* ProjectIRDB IRDB(ModuleOpt)
SetupIRDB ==
    /\ mainPc = "IRDB"
    /\ mainPc' = "Controller"
    /\ UNCHANGED <<diag, exitStatus>>
    /\ UNCHANGED beforeController

\* if (EntryOpt.empty()) EntryOpt.push_back("main"), then the
\* AnalysisController is constructed, which calls the constructor of
\* LLVMBasedICFG with the entry points and AutoGlobalsOpt
ConstructController ==
    /\ mainPc = "Controller"
    /\ pc = "idle"
    /\ pc' = "initEntryPoints"
    /\ EntryPoints' = IF EntryPoints = <<>> THEN <<"main">> ELSE EntryPoints
    /\ UNCHANGED <<ir, IncludeGlobals, NumberOfModules, outer, UserEntryPoints,
                   EntryWarnings, FunctionWL, VisitedFunctions, FunctionVertexMap,
                   Vertices, Edges, IndirectCalls, FixpointReached, todo, passes,
                   Verdict, Shrunk, hookLog, Warnings, scans, announced, asked>>

\* the AnalysisController is constructed: return 0
MainReturn ==
    /\ mainPc = "Controller"
    /\ pc = "done"
    /\ mainPc' = "returned"
    /\ exitStatus' = Exit(0)
    /\ UNCHANGED diag
    /\ UNCHANGED beforeController

CliNext ==
    \/ CheckStrategy
    \/ validateParamModule
    \/ validateParamOutput
    \/ validateParamPointerAnalysis
    \/ validateParamCallGraphAnalysis
    \/ validateSoundnessFlag
    \/ validateParamAnalysisConfig
    \/ validatePTAJsonFile
    \/ SetupIRDB
    \/ ConstructController
    \/ MainReturn
    \/ Next

CliSpec == CliInit /\ [][CliNext]_vars

\* main and the builder run to completion on one thread
FairCliSpec == CliInit /\ [][CliNext]_vars /\ WF_vars(CliNext)

(***************************************************************************)
(* Constructions over call sites with receivers: every outcome of the      *)
(* virtual-call test, two sites in main.                                   *)
(***************************************************************************)
\* the receivers of a call: a type hierarchy has a vtable only for a type it
\* knows; the vtable index is read off the call's operand
Receivers ==
    {Receiver(known, vtable, index) :
        known \in BOOLEAN, vtable \in BOOLEAN, index \in {-1, 0}}
      \ {Receiver(FALSE, TRUE, -1), Receiver(FALSE, TRUE, 0)}

\* the indirect calls of the programs with receivers
ReceiverCalls == {PtrCall} \cup {ReceiverCall(r) : r \in Receivers}

ReceiverPrograms ==
    {[main |-> <<a, b>>, f |-> <<OtherInst>>, g |-> <<>>] :
        a \in ReceiverCalls, b \in ReceiverCalls}

\* the resolver answers {f} until the body of f was announced, and {f, g}
\* from then on
ReceiverInit ==
    /\ ir \in ReceiverPrograms
    /\ EntryPoints = <<"main">>
    /\ IncludeGlobals = FALSE
    /\ NumberOfModules = 1
    /\ oracle = OnTheFly(<<"f", 1>>, {"f"}, {"f", "g"}, {})
    /\ run = 1
    /\ firstGraph = NoGraph
    /\ lastQuery = NoQuery
    /\ Library
    /\ Fresh

ReceiverSpec == ReceiverInit /\ [][Next]_vars

(***************************************************************************)
(* The flow function MapFactsAlongsideCallSite of LLVMFlowFunctions.h.     *)
(* A value is a name with the answer of getType()->isPointerTy(); a call   *)
(* site is the sequence of its argument operands.                          *)
(***************************************************************************)
\* the longest argument list of a call site
MaxArgs == 2

\* the values of the function: two of pointer type, two of another type
FlowValues ==
    {[name |-> "p", isPointerTy |-> TRUE], [name |-> "q", isPointerTy |-> TRUE],
     [name |-> "i", isPointerTy |-> FALSE], [name |-> "j", isPointerTy |-> FALSE]}

\* the call sites: every argument list of at most MaxArgs values
CallBases == UNION {[1..k -> FlowValues] : k \in 0..MaxArgs}

\* LLVMZeroValue::getInstance()->isLLVMZeroValue(V)
isLLVMZeroValue(V) == V = LLVMZeroValue

\* the default argument of the constructor: V is an argument of the call
\* and of pointer type
Involved(CB, V) == \E i \in DOMAIN CB : CB[i] = V /\ V.isPointerTy

\* the predicates a client constructs the flow function with: the default
\* one, one that holds for no value, one that holds for every value
Predicates == {"default", "none", "all"}

\* Predicate(CB, V)
Predicate(kind, CB, V) ==
    IF kind = "default" THEN Involved(CB, V) ELSE kind = "all"

\* MapFactsAlongsideCallSite::computeTargets(Source)
computeTargets(kind, CB, Source) ==
    IF ~isLLVMZeroValue(Source) THEN {Source}
    ELSE IF ~Predicate(kind, CB, Source) THEN {Source}
    ELSE IF isLLVMZeroValue(Source) THEN {Source}
    ELSE {}

\* a flow function was constructed for a call site and is about to be asked
\* for the targets of a fact; no ICFG is under construction
FlowInit ==
    /\ ir = NoDefinitions
    /\ EntryPoints = <<>>
    /\ IncludeGlobals = FALSE
    /\ NumberOfModules = 1
    /\ oracle = AnyResolver
    /\ run = 1
    /\ firstGraph = NoGraph
    /\ lastQuery = NoQuery
    /\ opts = DefaultOptions
    /\ mainPc = "library"
    /\ diag = <<>>
    /\ exitStatus = Running
    /\ pc = "idle"
    /\ Unbuilt
    /\ flow \in [CB : CallBases, Predicate : Predicates,
                 Source : FlowValues \cup {LLVMZeroValue},
                 Targets : {{}}, pc : {"call"}]

\* the solver calls computeTargets(Source)
ComputeTargets ==
    /\ flow.pc = "call"
    /\ flow' = [flow EXCEPT
                  !.Targets = computeTargets(flow.Predicate, flow.CB, flow.Source),
                  !.pc = "returned"]
    /\ UNCHANGED <<ir, inputs, oracle, run, firstGraph, lastQuery, opts, mainPc,
                   diag, exitStatus, pc, UserEntryPoints, EntryWarnings, FunctionWL,
                   VisitedFunctions, FunctionVertexMap, Vertices, Edges,
                   IndirectCalls, FixpointReached, todo, passes, Verdict, Shrunk,
                   hookLog, Warnings, scans, announced, asked>>

FlowNext == ComputeTargets

FlowSpec == FlowInit /\ [][FlowNext]_vars

(***************************************************************************)
(* Views of the graph used by the properties.                              *)
(***************************************************************************)

\* the positions of the edges labelled n that leave the vertex of n's function
EdgesAt(n) ==
    {i \in DOMAIN Edges :
        /\ Edges[i].CS = n
        /\ getFunction(n) \in DOMAIN FunctionVertexMap
        /\ Edges[i].src = FunctionVertexMap[getFunction(n)]}

\* the functions initGlobalsAndWorkList puts on the worklist
Seeds == IF IncludeGlobals THEN {GlobCtorName} ELSE Range(UserEntryPoints)

\* the functions that are the callee of some edge
Callees == {Vertices[e.tgt] : e \in Range(Edges)}

\* the sum of the recorded target counts
RECURSIVE SumCounts(_)
SumCounts(S) ==
    IF S = {} THEN 0
    ELSE LET n == CHOOSE x \in S : TRUE
         IN  IndirectCalls[n] + SumCounts(S \ {n})

\* s is a prefix of t
IsPrefix(s, t) == Len(s) <= Len(t) /\ \A i \in DOMAIN s : s[i] = t[i]

\* the latest handler was a constructDynamicCall of n that found new targets
LinkedNow(n) ==
    /\ Len(hookLog) = 4
    /\ hookLog[1] = Hook("preCall", n)
    /\ hookLog[4] = Hook("postCall", n)
    /\ hookLog[2].hook \in {"resolveVirtualCall", "resolveFunctionPointer"}

(***************************************************************************)
(* C1. Termination: buildCallGraph's do-while loop exits for every IR,     *)
(* entry list and resolver answering with subsets of the functions: the    *)
(* construction reaches its return, and the number of started passes stays *)
(* within one plus the number of recorded sites plus the sum of their      *)
(* counts (each further pass is paid for by a newly recorded site or a     *)
(* raised count).  The one run that does not reach the return is the one   *)
(* the constructor's assert stops before buildCallGraph is entered.        *)
(***************************************************************************)
PassBound ==
    passes <= 1 + Cardinality(DOMAIN IndirectCalls) + SumCounts(DOMAIN IndirectCalls)

Termination == <>(pc \in {"done", "abort"}) /\ [](PassBound /\ passes < MaxPasses)

\* a construction that returned after four passes
TerminationWitness == pc = "done" /\ passes >= 4

(***************************************************************************)
(* C2. Reachability closure: when buildCallGraph has returned, every       *)
(* non-declaration function that is a worklist seed or the callee of an    *)
(* edge is in VisitedFunctions.                                            *)
(***************************************************************************)
ReachabilityClosure ==
    pc = "done" =>
        \A F \in Seeds \cup Callees :
            ~isDeclaration(F) => F \in VisitedFunctions

\* a returned construction in which a definition that is no seed was reached
\* through a resolved indirect site
ReachabilityWitness ==
    /\ pc = "done"
    /\ \E e \in Range(Edges) :
         /\ e.CS \in DOMAIN IndirectCalls
         /\ ~isDeclaration(Vertices[e.tgt])
         /\ Vertices[e.tgt] \notin Seeds \cup Range(UserEntryPoints)
         /\ Vertices[e.tgt] \in VisitedFunctions

(***************************************************************************)
(* C3. No duplicate edges: in every reachable state the graph holds at     *)
(* most one edge per (caller function, callee function, call site).        *)
(***************************************************************************)
NoDuplicateEdges ==
    \A i, j \in DOMAIN Edges : i # j => Triple(Edges[i]) # Triple(Edges[j])

\* constructDynamicCall got an answer of two targets of which one was linked
\* before, and linked only the other one
NoDuplicateWitness ==
    \E n \in DOMAIN Verdict :
        /\ LinkedNow(n)
        /\ Cardinality(Verdict[n]) = 2
        /\ Cardinality(EdgesAt(n)) = 2
        /\ Len(FunctionWL) = 1

(***************************************************************************)
(* C4. Edge well-formedness: in every reachable state every edge is        *)
(* labelled with a call-like instruction, and its source vertex is the     *)
(* vertex of the function that instruction belongs to.                     *)
(***************************************************************************)
EdgeWellFormed ==
    \A e \in Range(Edges) :
        /\ e.CS \in Insts
        /\ isCallBase(InstOf(e.CS))
        /\ Vertices[e.src] = getFunction(e.CS)
        /\ getFunction(e.CS) \in DOMAIN FunctionVertexMap
        /\ FunctionVertexMap[getFunction(e.CS)] = e.src

\* the graph holds an edge of a static site and an edge of an indirect site,
\* and the caller's vertex is not the one added last
EdgeWellFormedWitness ==
    /\ \E e \in Range(Edges) : e.CS \notin DOMAIN IndirectCalls
    /\ \E e \in Range(Edges) : e.CS \in DOMAIN IndirectCalls /\ e.src # Len(Vertices)

(***************************************************************************)
(* C5. Count/edge agreement at termination.                                *)
(* As claimed (CountEqualsEdges): when buildCallGraph has returned, for    *)
(* every recorded site the number of edges labelled with it that leave     *)
(* its function's vertex equals its count, whatever the resolver answers.  *)
(* As amended (CountEqualsEdgesGrowing): the same for the sites whose      *)
(* answers only grew, each answer containing the one before.               *)
(***************************************************************************)
CountEqualsEdges ==
    pc = "done" =>
        \A n \in DOMAIN IndirectCalls : Cardinality(EdgesAt(n)) = IndirectCalls[n]

CountEqualsEdgesGrowing ==
    pc = "done" =>
        \A n \in DOMAIN IndirectCalls \ Shrunk :
            Cardinality(EdgesAt(n)) = IndirectCalls[n]

\* a returned construction with a site resolved in two steps by growing answers
CountEqualsEdgesWitness ==
    /\ pc = "done"
    /\ passes >= 4
    /\ \E n \in DOMAIN IndirectCalls \ Shrunk : IndirectCalls[n] = 2

(***************************************************************************)
(* C6. Edges reflect the latest verdict.                                   *)
(* As claimed (EdgesInLatestVerdict): when buildCallGraph has returned,    *)
(* the callee of every edge of an indirect site is in the answer the       *)
(* resolver gave last for that site, whatever the resolver answers.        *)
(* As amended (EdgesInLatestVerdictGrowing): the same for the sites whose  *)
(* answers only grew.                                                      *)
(***************************************************************************)
EdgesInLatestVerdict ==
    pc = "done" =>
        \A e \in Range(Edges) :
            e.CS \in DOMAIN IndirectCalls =>
                e.CS \in DOMAIN Verdict /\ Vertices[e.tgt] \in Verdict[e.CS]

EdgesInLatestVerdictGrowing ==
    pc = "done" =>
        \A e \in Range(Edges) :
            (e.CS \in DOMAIN IndirectCalls /\ e.CS \notin Shrunk) =>
                e.CS \in DOMAIN Verdict /\ Vertices[e.tgt] \in Verdict[e.CS]

\* a returned construction with two edges of a site whose answers only grew
EdgesInLatestVerdictWitness ==
    /\ pc = "done"
    /\ \E n \in DOMAIN IndirectCalls \ Shrunk :
         Cardinality(EdgesAt(n)) = 2 /\ Cardinality(Verdict[n]) = 2

(***************************************************************************)
(* C7. No out-edge from an unvisited function: in every reachable state    *)
(* the function at the source of every edge is in VisitedFunctions.        *)
(***************************************************************************)
NoEdgeFromUnvisited ==
    \A e \in Range(Edges) : Vertices[e.src] \in VisitedFunctions

\* edges exist while a function with a vertex is still unvisited
NoEdgeFromUnvisitedWitness ==
    /\ Edges # <<>>
    /\ \E F \in DOMAIN FunctionVertexMap : ~isDeclaration(F) /\ F \notin VisitedFunctions

(***************************************************************************)
(* C8. Monotone growth: every step of the construction keeps every edge,   *)
(* every vertex, every entry of FunctionVertexMap and every visited mark.  *)
(***************************************************************************)
Grows ==
    /\ IsPrefix(Edges, Edges')
    /\ IsPrefix(Vertices, Vertices')
    /\ DOMAIN FunctionVertexMap \subseteq DOMAIN FunctionVertexMap'
    /\ \A F \in DOMAIN FunctionVertexMap : FunctionVertexMap'[F] = FunctionVertexMap[F]
    /\ VisitedFunctions \subseteq VisitedFunctions'

MonotoneGrowth == [][Grows]_vars

\* a function that already had a vertex was linked a second time
MonotoneGrowthWitness ==
    /\ Len(Edges) >= 2
    /\ Len(Vertices) < Len(Edges)
    /\ Cardinality(VisitedFunctions) >= 2

(***************************************************************************)
(* C9. Counter monotonicity: a site recorded in IndirectCalls stays        *)
(* recorded and its count never decreases in any later step.               *)
(***************************************************************************)
CountersGrow ==
    \A n \in DOMAIN IndirectCalls :
        n \in DOMAIN IndirectCalls' /\ IndirectCalls'[n] >= IndirectCalls[n]

CounterMonotone == [][CountersGrow]_vars

\* a site with a raised count was answered with fewer targets, and functions
\* were scanned after the count was raised
CounterMonotoneWitness ==
    \E n \in DOMAIN Verdict :
        /\ IndirectCalls[n] = 2
        /\ Cardinality(Verdict[n]) < 2
        /\ Cardinality(VisitedFunctions) >= 2

(***************************************************************************)
(* C10. Resolver hook protocol: every preCall(n) a handler issues is       *)
(* followed, before any hook of another instruction, by at most one        *)
(* resolve query for n, then handlePossibleTargets(n), then postCall(n).   *)
(***************************************************************************)
\* position i of the log starts a complete sequence for its instruction
CompleteFrom(i) ==
    LET n == hookLog[i].inst
        r == IF i + 1 <= Len(hookLog)
                /\ hookLog[i + 1].hook \in {"resolveVirtualCall", "resolveFunctionPointer"}
                /\ hookLog[i + 1].inst = n
             THEN 1 ELSE 0
    IN  /\ i + r + 2 <= Len(hookLog)
        /\ hookLog[i + r + 1] = Hook("handlePossibleTargets", n)
        /\ hookLog[i + r + 2] = Hook("postCall", n)

HookProtocol ==
    \A i \in DOMAIN hookLog : hookLog[i].hook = "preCall" => CompleteFrom(i)

(***************************************************************************)
(* C11. Scan at most once: in one construction processFunction walks the   *)
(* instructions of a function at most once, however often the function is  *)
(* pushed on the worklist; a declaration is never walked and never enters  *)
(* VisitedFunctions.                                                       *)
(***************************************************************************)
ScanAtMostOnce ==
    /\ DOMAIN scans \subseteq DOMAIN ir
    /\ \A F \in DOMAIN ir :
         /\ F \in DOMAIN scans => scans[F] <= 1
         /\ isDeclaration(F) => F \notin DOMAIN scans /\ F \notin VisitedFunctions

\* a returned construction in which a definition was pushed by two edges and
\* walked once, and a declaration was pushed and popped
ScanAtMostOnceWitness ==
    /\ pc = "done"
    /\ \E F \in DOMAIN scans :
         /\ scans[F] = 1
         /\ Cardinality({i \in DOMAIN Edges : Vertices[Edges[i].tgt] = F}) >= 2
    /\ \E G \in Callees : isDeclaration(G)

(***************************************************************************)
(* C12. Function/vertex bijection: in every reachable state                *)
(* FunctionVertexMap is injective and its range is exactly the vertex set  *)
(* of the graph; a function has a map entry iff exactly one vertex carries *)
(* it, and the vertex mapped to a function carries that function.          *)
(***************************************************************************)
VertexBijection ==
    /\ \A F, G \in DOMAIN FunctionVertexMap :
         F # G => FunctionVertexMap[F] # FunctionVertexMap[G]
    /\ {FunctionVertexMap[F] : F \in DOMAIN FunctionVertexMap} = DOMAIN Vertices
    /\ \A F \in DOMAIN FunctionVertexMap : Vertices[FunctionVertexMap[F]] = F
    /\ \A F \in DOMAIN ir :
         F \in DOMAIN FunctionVertexMap
           <=> Cardinality({v \in DOMAIN Vertices : Vertices[v] = F}) = 1

\* every function of the IR has its vertex, one of them was looked up again
\* by a second edge, and one of them is a declaration
VertexBijectionWitness ==
    /\ DOMAIN FunctionVertexMap = DOMAIN ir
    /\ Len(Edges) > Len(Vertices)
    /\ \E F \in DOMAIN FunctionVertexMap : isDeclaration(F)

(***************************************************************************)
(* C13. Idempotence / order independence: with a resolver that answers as  *)
(* a function of the instructions announced to it so far, two              *)
(* constructions from the same IR and entry list return the same vertex    *)
(* set and the same set of (caller, callee, site) edges, whatever order    *)
(* the sites of IndirectCalls and the targets of an answer are iterated    *)
(* in.                                                                     *)
(***************************************************************************)
OrderIndependence ==
    (run = 2 /\ pc = "done") =>
        /\ Graph.V = firstGraph.V
        /\ Graph.E = firstGraph.E

\* the second construction returned after iterating two recorded sites and a
\* two-target answer in another order than the first one: the edge inserted
\* last is another one
OrderIndependenceWitness ==
    /\ run = 2
    /\ pc = "done"
    /\ Cardinality(DOMAIN IndirectCalls) = 2
    /\ \E n \in DOMAIN IndirectCalls : IndirectCalls[n] = 2
    /\ Graph.last # firstGraph.last
    /\ Graph.E = firstGraph.E

(***************************************************************************)
(* C16. Scenario S4: main stores the address of a function (f here) into a *)
(* pointer and calls through the pointer; the resolver answers {f} for the *)
(* site once the store was announced, and {} before.                       *)
(***************************************************************************)
\* the inputs of the scenario
S4 ==
    /\ ir = [main |-> <<OtherInst, PtrCall>>, f |-> <<OtherInst>>, g |-> <<OtherInst>>]
    /\ oracle.need = <<"main", 1>>
    /\ oracle.before = {}
    /\ oracle.after = {"f"}

\* the call through the pointer
S4Site == <<"main", 2>>

\* the edge main -> f at the site exists
S4Edge == <<"main", "f", S4Site>> \in Graph.E

\* the k-th body of the do-while loop is at its end
EndOfPass(k) == pc = "for" /\ todo = {} /\ passes = k

\* C16 as stated: at the end of the first outer pass the site has count 0
\* and no edge main -> f exists; the second outer pass raises the count to
\* 1, adds the edge and enqueues f; the loop exits after exactly three
\* outer passes with f in VisitedFunctions.
S4ThreePasses ==
    S4 =>
      /\ EndOfPass(1) => IndirectCalls[S4Site] = 0 /\ ~S4Edge
      /\ EndOfPass(2) => IndirectCalls[S4Site] = 1 /\ S4Edge
      /\ pc = "done" => passes = 3 /\ "f" \in VisitedFunctions

\* C16 as the code behaves: the scan of the first outer pass records the
\* site with count 0 and no edge; the range-for of the same pass, which
\* runs after the store was announced, raises the count to 1, adds the edge
\* main -> f and enqueues f; the second outer pass scans f and finds
\* nothing new, and the loop exits after exactly two outer passes with f in
\* VisitedFunctions.
S4TwoPasses ==
    S4 =>
      /\ (pc = "for" /\ passes = 1 /\ S4Site \in todo) =>
            IndirectCalls[S4Site] = 0 /\ ~S4Edge
      /\ EndOfPass(1) =>
            /\ IndirectCalls[S4Site] = 1
            /\ S4Edge
            /\ FunctionWL = <<"f">>
            /\ ~FixpointReached
      /\ EndOfPass(2) => "f" \in VisitedFunctions /\ FixpointReached
      /\ pc = "done" =>
            /\ passes = 2
            /\ "f" \in VisitedFunctions
            /\ Graph.E = {<<"main", "f", S4Site>>}

\* the construction of the scenario returned
S4Witness ==
    /\ S4
    /\ pc = "done"
    /\ passes = 2
    /\ scans = [F \in {"main", "f"} |-> 1]
    /\ IndirectCalls[S4Site] = 1

(***************************************************************************)
(* C14. getCalleesOfCallAt(n) returns exactly the callee functions of      *)
(* those out-edges of the vertex of n's function that are labelled n, one  *)
(* entry per such edge; it returns the empty list when n is no call-like   *)
(* instruction or n's function has no vertex; and it adds no entry to      *)
(* FunctionVertexMap (nor changes the graph).                              *)
(***************************************************************************)
\* the result r answers the query for n on the graph as it is
CalleesExact(n, r) ==
    /\ (~isCallBase(InstOf(n)) \/ getFunction(n) \notin DOMAIN FunctionVertexMap)
          => r = <<>>
    /\ Len(r) = Cardinality(EdgesAt(n))
    /\ \A F \in DOMAIN ir :
         Cardinality({i \in DOMAIN r : r[i] = F})
           = Cardinality({i \in EdgesAt(n) : Vertices[Edges[i].tgt] = F})

\* a step that asks for the callees of an instruction
CalleesAsked ==
    /\ pc = "done"
    /\ pc' = "done"
    /\ lastQuery'.query = "getCalleesOfCallAt"

CalleesOfCallAt ==
    [][CalleesAsked =>
          /\ CalleesExact(lastQuery'.arg, lastQuery'.result)
          /\ FunctionVertexMap' = FunctionVertexMap
          /\ Vertices' = Vertices
          /\ Edges' = Edges]_vars

\* the callees of a site with two edges were asked for, in a graph in which
\* a function holding a call site has no vertex
CalleesOfCallAtWitness ==
    /\ lastQuery.query = "getCalleesOfCallAt"
    /\ Len(lastQuery.result) = 2
    /\ lastQuery.result[1] # lastQuery.result[2]
    /\ \E n \in Insts :
         isCallBase(InstOf(n)) /\ getFunction(n) \notin DOMAIN FunctionVertexMap

(***************************************************************************)
(* C15. Scenario S1 generalised: if no function reachable from the seeds   *)
(* through static calls contains an indirect call site (only static calls  *)
(* and inline assembly), the body of buildCallGraph's do-while loop is     *)
(* executed exactly once, and the returned graph has one vertex per        *)
(* reachable function and one edge per static call site of a reachable     *)
(* definition.                                                             *)
(***************************************************************************)
\* the static call sites of F with their callees, read off the instructions
StaticSites(F) ==
    {<<F, ir[F][i].name, <<F, i>>>> :
        i \in {j \in DOMAIN ir[F] :
                 \/ ir[F][j].kind = "direct"
                 \/ ir[F][j].kind = "named" /\ ir[F][j].name \in Funcs}}

\* F holds a call site that is neither static nor inline assembly
HasIndirectSite(F) ==
    \E i \in DOMAIN ir[F] :
        \/ ir[F][i].kind \in {"ptr", "virt"}
        \/ ir[F][i].kind = "named" /\ ir[F][i].name \notin Funcs

\* the functions reachable from S through static calls
RECURSIVE StaticReach(_)
StaticReach(S) ==
    LET N == S \cup {t[2] : t \in UNION {StaticSites(F) : F \in S}}
    IN  IF N = S THEN S ELSE StaticReach(N)

\* the worklist was seeded and no reachable function holds an indirect site
StaticOnly ==
    /\ pc \notin {"initEntryPoints", "initGlobalsAndWorkList", "abort"}
    /\ \A F \in StaticReach(Seeds) : ~HasIndirectSite(F)

StaticProgram ==
    StaticOnly =>
      /\ passes <= 1
      /\ pc = "done" =>
           /\ passes = 1
           /\ Range(Vertices) = StaticReach(Seeds)
           /\ Len(Vertices) = Cardinality(StaticReach(Seeds))
           /\ Graph.E = UNION {StaticSites(F) : F \in StaticReach(Seeds)}
           /\ Len(Edges) = Cardinality(Graph.E)

\* a construction without indirect sites returned: main calls f and g, f
\* calls g and holds inline assembly, and every function got its vertex
StaticProgramWitness ==
    /\ StaticOnly
    /\ pc = "done"
    /\ Len(Vertices) = 3
    /\ Len(Edges) = 3
    /\ \E F \in VisitedFunctions : \E i \in DOMAIN ir[F] : isInlineAsm(ir[F][i])

(***************************************************************************)
(* C17. A missing entry point is recoverable: for an entry list with names *)
(* that have no definition in the IRDB, each such name produces one        *)
(* warning and is skipped, every other listed entry is seeded and          *)
(* processed, the construction completes and phasar-llvm exits with code   *)
(* 0.  (The construction is the one of a configuration the builder         *)
(* supports: IncludeGlobals only with a single module.)                    *)
(***************************************************************************)
\* the name has no definition in the IRDB
Undefined(nm) == nm \notin Funcs \/ ir[nm] = <<>>

\* the entry list names entries, and one of them has no definition
HasMissingEntry ==
    /\ ~(Len(EntryPoints) = 1 /\ EntryPoints[1] = AllSentinel)
    /\ \E i \in DOMAIN EntryPoints : Undefined(EntryPoints[i])

MissingEntrySkipped ==
    (HasMissingEntry /\ pc \notin {"idle", "initEntryPoints"}) =>
      /\ EntryWarnings = SelectSeq(EntryPoints, Undefined)
      /\ UserEntryPoints = SelectSeq(EntryPoints, LAMBDA nm : ~Undefined(nm))
      /\ pc \notin {"initGlobalsAndWorkList", "abort"} =>
            Range(UserEntryPoints) \subseteq StaticReach(Seeds)
      /\ pc = "done" => Range(UserEntryPoints) \subseteq VisitedFunctions
      /\ exitStatus \in {Running, Exit(0)}
      /\ diag = <<>>

MissingEntryRecoverable ==
    /\ [] MissingEntrySkipped
    /\ (HasMissingEntry /\ pc = "initEntryPoints"
          /\ ~(IncludeGlobals /\ NumberOfModules # 1))
         ~> (pc = "done" /\ exitStatus = Exit(0))

\* phasar-llvm returned 0 after a construction that warned about one of
\* three entries and scanned the other two
MissingEntryWitness ==
    /\ mainPc = "returned"
    /\ exitStatus = Exit(0)
    /\ Len(EntryWarnings) = 1
    /\ Len(UserEntryPoints) = 2
    /\ Range(UserEntryPoints) \subseteq VisitedFunctions

(***************************************************************************)
(* C18. Scenario S6: when IncludeGlobals is true and the IRDB holds two    *)
(* modules, the run of phasar-llvm ends with one configuration-error       *)
(* diagnostic and exit code 1, and buildCallGraph is never started.        *)
(***************************************************************************)
\* the diagnostic of the first check of main that fails, "" when none does
FirstFailure ==
    IF opts.strategy = "None" THEN "Invalid analysis strategy!"
    ELSE IF \E i \in DOMAIN opts.module : opts.module[i] # "ll"
         THEN "LLVM module does not exist!"
    ELSE IF opts.out = "missing"
         THEN "does not exist, a valid output directory is required!"
    ELSE IF opts.pta = "Invalid" THEN "'Invalid' is not a valid pointer analysis!"
    ELSE IF opts.cg = "Invalid" THEN "'Invalid' is not a valid call-graph analysis!"
    ELSE IF opts.soundness = "Invalid" THEN "'Invalid' is not a valid soundness level!"
    ELSE IF opts.config = "missing" THEN "Analysis configuration does not exist!"
    ELSE IF opts.ptajson = "missing" THEN "Points-to info file does not exist!"
    ELSE ""

\* the run was started with IncludeGlobals and two modules that exist
S6 == FirstFailure = "" /\ IncludeGlobals /\ NumberOfModules = 2

GlobalsNeedOneModule ==
    S6 =>
      /\ pc \notin {"do", "while", "for", "warn", "done", "terminate"}
      /\ (pc = "abort" \/ mainPc \in {"exited", "returned"}) =>
            exitStatus = Exit(1) /\ Len(diag) = 1

(***************************************************************************)
(* C19. The validation gate of phasar-llvm: if the analysis strategy is    *)
(* None, or a module path is invalid, or the output directory is invalid,  *)
(* or the pointer analysis, the call-graph algorithm or the soundness      *)
(* level is Invalid, or the analysis-config file or the points-to JSON     *)
(* file is invalid, main ends with exit code 1 after exactly one           *)
(* diagnostic, the one of the first failing check in this order, and       *)
(* neither the IRDB nor the AnalysisController is constructed.  When no    *)
(* check fails main writes no diagnostic and returns 0 when the            *)
(* AnalysisController is constructed; the one run that does not get there  *)
(* is the one the builder's assert stops.                                  *)
(***************************************************************************)
GateSafety ==
    IF FirstFailure # ""
    THEN /\ mainPc \notin {"IRDB", "Controller", "returned"}
         /\ pc = "idle"
         /\ mainPc = "exited" => exitStatus = Exit(1) /\ diag = <<FirstFailure>>
         /\ mainPc # "exited" => exitStatus = Running /\ diag = <<>>
    ELSE /\ diag = <<>>
         /\ mainPc # "exited"
         /\ exitStatus = (IF mainPc = "returned" THEN Exit(0) ELSE Running)

GateEnd ==
    IF FirstFailure # "" THEN exitStatus = Exit(1)
    ELSE exitStatus = Exit(0) \/ pc = "abort"

ValidationGate == [] GateSafety /\ <> GateEnd

\* main exited with the diagnostic of the soundness check although the
\* points-to JSON file, checked later, is invalid too
ValidationGateWitness ==
    /\ mainPc = "exited"
    /\ exitStatus = Exit(1)
    /\ diag = <<"'Invalid' is not a valid soundness level!">>
    /\ opts.ptajson = "missing"
    /\ opts.out = "dir"

(***************************************************************************)
(* C20. Empty seed set: with IncludeGlobals false, if no entry resolves to *)
(* a definition (an empty entry list, only names without a definition, or  *)
(* __ALL__ on an IRDB without definitions), buildCallGraph returns after   *)
(* exactly one pass of its do-while loop, with no vertex, no edge, an      *)
(* empty VisitedFunctions and an empty IndirectCalls.                      *)
(***************************************************************************)
\* no listed entry has a definition
NoEntryResolves ==
    IF Len(EntryPoints) = 1 /\ EntryPoints[1] = AllSentinel
    THEN \A F \in Funcs : ir[F] = <<>>
    ELSE \A i \in DOMAIN EntryPoints : Undefined(EntryPoints[i])

EmptyGraph ==
    (~IncludeGlobals /\ NoEntryResolves) =>
      /\ Vertices = <<>>
      /\ Edges = <<>>
      /\ FunctionVertexMap = EmptyMap
      /\ VisitedFunctions = {}
      /\ IndirectCalls = EmptyMap
      /\ passes <= 1
      /\ pc = "done" => passes = 1
      /\ pc \notin {"abort", "terminate"}

EmptySeedSet ==
    /\ [] EmptyGraph
    /\ (~IncludeGlobals /\ NoEntryResolves) ~> (pc = "done" /\ passes = 1)

\* the construction for __ALL__ on a module without definitions returned
EmptySeedSetWitness ==
    /\ pc = "done"
    /\ EntryPoints = <<AllSentinel>>
    /\ ir = NoDefinitions
    /\ ~IncludeGlobals
    /\ passes = 1
    /\ Vertices = <<>>

(***************************************************************************)
(* C21. Entry-set computation: the sentinel __ALL__ takes effect only when *)
(* the entry list is exactly the one element __ALL__, and then the entries *)
(* are exactly the non-declaration functions of the IRDB; in every other   *)
(* case, a longer list that contains __ALL__ included, the entries are     *)
(* exactly the listed names that have a definition, in the listed order.   *)
(***************************************************************************)
EntrySet ==
    pc \notin {"idle", "initEntryPoints"} =>
      IF EntryPoints = <<AllSentinel>>
      THEN /\ Range(UserEntryPoints) = {F \in Funcs : ir[F] # <<>>}
           /\ Len(UserEntryPoints) = Cardinality({F \in Funcs : ir[F] # <<>>})
      ELSE UserEntryPoints = SelectSeq(EntryPoints, LAMBDA nm : ~Undefined(nm))

\* the entries of the list <<__ALL__, main>> were looked up by name in a
\* module with another definition: main alone is an entry, and the
\* sentinel was warned about like an unknown name
EntrySetWitness ==
    /\ pc = "done"
    /\ EntryPoints = <<AllSentinel, "main">>
    /\ UserEntryPoints = <<"main">>
    /\ EntryWarnings = <<AllSentinel>>
    /\ ir["f"] # <<>>
    /\ ~IncludeGlobals

(***************************************************************************)
(* C22. Inline assembly: a call site whose called operand is inline        *)
(* assembly never gets an edge, is never recorded in IndirectCalls and     *)
(* never makes processFunction report that the fixpoint was not reached;   *)
(* a visited function whose only call sites are inline assembly has a      *)
(* vertex and no outgoing edge.                                            *)
(***************************************************************************)
\* the call sites of F
CallSites(F) == {<<F, i>> : i \in {j \in DOMAIN ir[F] : isCallBase(ir[F][j])}}

\* the call sites whose called operand is inline assembly
AsmSites == {n \in Insts : InstOf(n).kind = "asm"}

\* F holds call sites, and all of them call inline assembly
OnlyAsmSites(F) == CallSites(F) # {} /\ CallSites(F) \subseteq AsmSites

\* the edges that leave the vertex of F
OutEdges(F) ==
    {i \in DOMAIN Edges :
        F \in DOMAIN FunctionVertexMap /\ Edges[i].src = FunctionVertexMap[F]}

AsmSiteInert ==
    /\ \A n \in AsmSites :
         /\ \A i \in DOMAIN Edges : Edges[i].CS # n
         /\ n \notin DOMAIN IndirectCalls
    /\ \A F \in VisitedFunctions :
         OnlyAsmSites(F) => F \in DOMAIN FunctionVertexMap /\ OutEdges(F) = {}

\* a round of the while loop that walks the body of F
Scans(F) ==
    /\ pc = "while"
    /\ FunctionWL # <<>>
    /\ FunctionWL[Len(FunctionWL)] = F
    /\ F \notin VisitedFunctions
    /\ F \in VisitedFunctions'

InlineAsmIgnored ==
    /\ []AsmSiteInert
    /\ [][\A F \in DOMAIN ir :
            (Scans(F) /\ CallSites(F) \cap AsmSites # {} /\ ~HasIndirectSite(F))
               => FixpointReached' = FixpointReached]_vars

\* main, whose only call site is inline assembly, was walked in a pass that
\* still holds FixpointReached = true, and the construction returned
InlineAsmIgnoredWitness ==
    /\ pc = "done"
    /\ "main" \in VisitedFunctions
    /\ OnlyAsmSites("main")
    /\ passes = 1
    /\ "main" \in DOMAIN FunctionVertexMap
    /\ Edges = <<>>

(***************************************************************************)
(* C23. Declarations: a function without a body that is the target of a    *)
(* static or of a resolved call gets a vertex and an incoming edge, but in *)
(* every reachable state it has no outgoing edge, is not a member of       *)
(* VisitedFunctions, and no call site recorded in IndirectCalls lies in it.*)
(***************************************************************************)
\* the functions of the module that have no body
Declarations == {F \in Funcs : ir[F] = <<>>}

\* some edge labelled n goes from the vertex of n's function to the vertex of t
HasEdge(n, t) ==
    /\ t \in DOMAIN FunctionVertexMap
    /\ \E i \in EdgesAt(n) : Edges[i].tgt = FunctionVertexMap[t]

DeclarationInert ==
    \A D \in Declarations :
      /\ D \notin VisitedFunctions
      /\ OutEdges(D) = {}
      /\ \A n \in DOMAIN IndirectCalls : getFunction(n) # D
      /\ \A F \in VisitedFunctions : \A s \in StaticSites(F) :
           s[2] = D => HasEdge(s[3], D)

DeclarationIsLeaf ==
    /\ []DeclarationInert
    /\ [][\A n \in Insts :
            LinkedNow(n)' =>
              \A D \in Declarations \cap Verdict'[n] : HasEdge(n, D)']_vars

\* main calls the declaration f directly and the declaration g through a
\* pointer the resolver resolved; both have their vertex and their edge
DeclarationIsLeafWitness ==
    /\ pc = "done"
    /\ Declarations = {"f", "g"}
    /\ \E s \in StaticSites("main") : s[2] = "f" /\ HasEdge(s[3], "f")
    /\ \E n \in DOMAIN IndirectCalls :
         IndirectCalls[n] = 1 /\ HasEdge(n, "g") /\ ~HasEdge(n, "f")
    /\ FunctionWL = <<>>

(***************************************************************************)
(* C24. The warning "No callees found for callsite" is emitted for an      *)
(* indirect call site exactly once, only after the outer loop was left,    *)
(* and exactly when the site's count in IndirectCalls is 0 at that point;  *)
(* such a site stays recorded with count 0 and has no edge; a site with a  *)
(* positive count gets no warning.                                         *)
(***************************************************************************)
NoCalleesWarning ==
    /\ pc # "done" => Warnings = EmptyBag
    /\ pc = "done" =>
         /\ BagToSet(Warnings) = {n \in DOMAIN IndirectCalls : IndirectCalls[n] = 0}
         /\ \A n \in BagToSet(Warnings) :
              /\ CopiesIn(n, Warnings) = 1
              /\ \A i \in DOMAIN Edges : Edges[i].CS # n
         /\ \A n \in DOMAIN IndirectCalls :
              IndirectCalls[n] > 0 => CopiesIn(n, Warnings) = 0

\* a construction returned with two recorded sites, one without a callee and
\* warned about once, the other resolved and not warned about
NoCalleesWarningWitness ==
    /\ pc = "done"
    /\ \E n, m \in DOMAIN IndirectCalls :
         /\ IndirectCalls[n] = 0
         /\ IndirectCalls[m] > 0
         /\ EdgesAt(m) # {}
         /\ Warnings = SetToBag({n})

(***************************************************************************)
(* C25. MapFactsAlongsideCallSite::computeTargets(Source): the zero fact   *)
(* is propagated as {Source}; a non-zero fact for which the predicate does *)
(* not hold is propagated as {Source}; a non-zero fact for which the       *)
(* predicate holds (by default: Source is a pointer-typed argument of the  *)
(* call site) is killed, the result is empty.                              *)
(***************************************************************************)
KillInvolvedFacts ==
    flow.pc = "returned" =>
      flow.Targets =
        IF isLLVMZeroValue(flow.Source) THEN {flow.Source}
        ELSE IF ~Predicate(flow.Predicate, flow.CB, flow.Source) THEN {flow.Source}
        ELSE {}

(***************************************************************************)
(* C26. constructDynamicCall without progress: when the resolver's answer  *)
(* T for site n has no more elements than IndirectCalls[n], the call       *)
(* returns false and leaves the edges, the vertices, FunctionVertexMap,    *)
(* the worklist, VisitedFunctions and IndirectCalls as they were, even if  *)
(* T contains functions that are not yet targets of n.                     *)
(***************************************************************************)
\* the step is constructDynamicCall(n) with the resolver's answer in Verdict'
Resolves(n) ==
    /\ pc = "for"
    /\ pc' = "for"
    /\ n \in todo
    /\ n \notin todo'

NoProgressNoChange ==
    [][\A n \in Insts :
          (Resolves(n) /\ Cardinality(Verdict'[n]) <= IndirectCalls[n]) =>
            /\ Edges' = Edges
            /\ Vertices' = Vertices
            /\ FunctionVertexMap' = FunctionVertexMap
            /\ FunctionWL' = FunctionWL
            /\ VisitedFunctions' = VisitedFunctions
            /\ IndirectCalls' = IndirectCalls
            /\ FixpointReached' = FixpointReached]_vars

\* the latest constructDynamicCall of a site with count 1 got an answer of
\* one function that is not a target of the site, and stopped after the
\* resolve query
NoProgressNoChangeWitness ==
    \E n \in DOMAIN IndirectCalls :
      /\ pc = "for"
      /\ Len(hookLog) = 2
      /\ hookLog[1] = Hook("preCall", n)
      /\ IndirectCalls[n] = 1
      /\ Cardinality(EdgesAt(n)) = 1
      /\ Cardinality(Verdict[n]) = 1
      /\ \E t \in Verdict[n] : ~HasEdge(n, t)
      /\ FixpointReached

(***************************************************************************)
(* C27. constructDynamicCall with progress: when the resolver's answer T   *)
(* for site n has more elements than IndirectCalls[n], the call sets       *)
(* IndirectCalls[n] to |T|, adds exactly one edge (caller(n), t, n) for    *)
(* each t in T that is not already the target of an edge labelled n from   *)
(* that caller, pushes exactly those t on the worklist, adds no other      *)
(* edge, and returns true.                                                 *)
(***************************************************************************)
\* the functions that are targets of the edges labelled n
TargetsAt(n) == {Vertices[Edges[i].tgt] : i \in EdgesAt(n)}

\* the positions of Edges' that Edges does not have
NewEdges == {i \in DOMAIN Edges' : i > Len(Edges)}

ProgressLinksNewTargets ==
    [][\A n \in Insts :
          (Resolves(n) /\ Cardinality(Verdict'[n]) > IndirectCalls[n]) =>
            LET T == Verdict'[n]
                New == T \ TargetsAt(n)
            IN  /\ IndirectCalls' = [IndirectCalls EXCEPT ![n] = Cardinality(T)]
                /\ IsPrefix(Edges, Edges')
                /\ Cardinality(NewEdges) = Cardinality(New)
                /\ \A i \in NewEdges :
                     /\ Edges'[i].CS = n
                     /\ Edges'[i].src = FunctionVertexMap[getFunction(n)]
                     /\ Edges'[i].tgt = FunctionVertexMap'[Vertices'[Edges'[i].tgt]]
                /\ {Vertices'[Edges'[i].tgt] : i \in NewEdges} = New
                /\ IsPrefix(FunctionWL, FunctionWL')
                /\ Len(FunctionWL') = Len(FunctionWL) + Cardinality(New)
                /\ \A i \in NewEdges :
                     FunctionWL'[Len(FunctionWL) + i - Len(Edges)]
                       = Vertices'[Edges'[i].tgt]
                /\ FixpointReached' = FALSE]_vars

\* the latest constructDynamicCall raised a site's count from 1 to 2: one
\* target was thrown out as found before, one edge was added and one
\* function pushed
ProgressLinksNewTargetsWitness ==
    \E n \in DOMAIN IndirectCalls :
      /\ pc = "for"
      /\ LinkedNow(n)
      /\ IndirectCalls[n] = 2
      /\ Cardinality(EdgesAt(n)) = 2
      /\ Cardinality(TargetsAt(n)) = 2
      /\ Len(FunctionWL) = 1
      /\ Edges[Len(Edges)].CS = n
      /\ ~FixpointReached

(***************************************************************************)
(* C28. The fatal branch of constructDynamicCall is unreachable: for every *)
(* site recorded in IndirectCalls the enclosing function has an entry in   *)
(* FunctionVertexMap, so the lookup of the caller's vertex succeeds and    *)
(* std::terminate is never reached.                                        *)
(***************************************************************************)
CallerHasVertex ==
    /\ \A n \in DOMAIN IndirectCalls :
         /\ getFunction(n) \in DOMAIN FunctionVertexMap
         /\ Vertices[FunctionVertexMap[getFunction(n)]] = getFunction(n)
    /\ pc # "terminate"

\* constructDynamicCall ran for a site of main in a construction seeded with
\* the globals model only, and the construction returned
CallerHasVertexWitness ==
    /\ pc = "done"
    /\ IncludeGlobals
    /\ \E n \in DOMAIN IndirectCalls \cap DOMAIN Verdict :
         /\ getFunction(n) = "main"
         /\ IndirectCalls[n] = 2
         /\ Cardinality(EdgesAt(n)) = 2

(***************************************************************************)
(* C29. The resolve query: it is issued only for call sites recorded in    *)
(* IndirectCalls, never for a static or an inline-assembly site; every     *)
(* constructDynamicCall issues exactly one of resolveVirtualCall and       *)
(* resolveFunctionPointer; it is resolveVirtualCall exactly when the       *)
(* virtual-call test holds (the receiver type is identified, known to the  *)
(* type hierarchy, has a vtable, and the vtable index is >= 0), and        *)
(* resolveFunctionPointer otherwise.                                       *)
(***************************************************************************)
\* the positions of a hook sequence that hold a resolve query
ResolveQueries(hooks) ==
    {i \in DOMAIN hooks :
        hooks[i].hook \in {"resolveVirtualCall", "resolveFunctionPointer"}}

\* the four conditions of the virtual-call test
IsVirtual(n) ==
    /\ InstOf(n).recv.RecType
    /\ InstOf(n).recv.hasType
    /\ InstOf(n).recv.hasVFTable
    /\ InstOf(n).recv.VFTIndex >= 0

ResolveOnlyIndirect ==
    \A i \in ResolveQueries(hookLog) :
      /\ hookLog[i].inst \in DOMAIN IndirectCalls
      /\ isCallBase(InstOf(hookLog[i].inst))
      /\ InstOf(hookLog[i].inst).kind \notin {"direct", "asm"}
      /\ ~(InstOf(hookLog[i].inst).kind = "named"
             /\ InstOf(hookLog[i].inst).name \in Funcs)

\* the step is a constructDynamicCall of n with exactly one resolve query,
\* of the kind the virtual-call test selects
OneResolveQuery(n) ==
    /\ Cardinality(ResolveQueries(hookLog')) = 1
    /\ \A i \in ResolveQueries(hookLog') :
         /\ hookLog'[i].inst = n
         /\ hookLog'[i].hook = "resolveVirtualCall" <=> IsVirtual(n)
         /\ hookLog'[i].hook = "resolveFunctionPointer" <=> ~IsVirtual(n)

\* a round of the while loop: processFunction
WalksSomeFunction == pc = "while" /\ pc' = "while"

ResolveQuery ==
    /\ []ResolveOnlyIndirect
    /\ [][\A n \in Insts : Resolves(n) => OneResolveQuery(n)]_vars
    /\ [][WalksSomeFunction => ResolveQueries(hookLog') = {}]_vars

\* the latest constructDynamicCall asked resolveFunctionPointer for a site
\* whose receiver is known with a vtable but whose vtable index is negative,
\* in a program whose other site passes the virtual-call test
ResolveQueryWitness ==
    \E n \in DOMAIN IndirectCalls :
      /\ pc = "for"
      /\ InstOf(n).recv = Receiver(TRUE, TRUE, -1)
      /\ hookLog[1] = Hook("preCall", n)
      /\ hookLog[2] = Hook("resolveFunctionPointer", n)
      /\ \E m \in DOMAIN IndirectCalls : IsVirtual(m)

(***************************************************************************)
(* C30. Static call sites: for every call site n in a visited function     *)
(* whose callee is statically known (directly, or by the name of the       *)
(* operand after stripping pointer casts), at termination exactly one edge *)
(* labelled n exists, its target is that named function, the callee was    *)
(* put on the worklist when the edge was added, and n was never recorded   *)
(* in IndirectCalls.                                                       *)
(***************************************************************************)
\* the static sites of the visited functions, as <<caller, callee, site>>
VisitedStaticSites == UNION {StaticSites(F) : F \in VisitedFunctions}

\* site s has its one edge, to its callee, and is not an indirect site
StaticSiteLinked(s) ==
    /\ Cardinality({i \in DOMAIN Edges : Edges[i].CS = s[3]}) = 1
    /\ Cardinality(EdgesAt(s[3])) = 1
    /\ HasEdge(s[3], s[2])
    /\ s[3] \notin DOMAIN IndirectCalls

\* the callees of the static sites of F in the order of the sites
RECURSIVE StaticCalleesFrom(_, _)
StaticCalleesFrom(F, i) ==
    IF i > Len(ir[F]) THEN <<>>
    ELSE IF StaticCallee(ir[F][i]) # NoFunction
         THEN <<StaticCallee(ir[F][i])>> \o StaticCalleesFrom(F, i + 1)
         ELSE StaticCalleesFrom(F, i + 1)

\* the walk of F pushes the callee of every static site, in the order of the
\* sites, and adds the edges in the same order
PushesStaticCallees(F) ==
    LET cs == StaticCalleesFrom(F, 1)
    IN  /\ FunctionWL' = SubSeq(FunctionWL, 1, Len(FunctionWL) - 1) \o cs
        /\ Len(Edges') = Len(Edges) + Len(cs)
        /\ \A k \in DOMAIN cs : Vertices'[Edges'[Len(Edges) + k].tgt] = cs[k]

StaticSiteOneEdge ==
    /\ [](\A s \in VisitedStaticSites : StaticSiteLinked(s))
    /\ [][\A F \in DOMAIN ir : Scans(F) => PushesStaticCallees(F)]_vars

\* the construction returned for a main with two static sites that call the
\* same function: each site has its own edge, and the callee was visited
StaticSiteOneEdgeWitness ==
    /\ pc = "done"
    /\ Cardinality(StaticSites("main")) = 2
    /\ \A s \in StaticSites("main") : s[2] = "f" /\ StaticSiteLinked(s)
    /\ "f" \in VisitedFunctions
    /\ Len(Edges) >= 3

(***************************************************************************)
(* C31. otherInst coverage and order: the walk of a function announces     *)
(* otherInst exactly once for each of its non-call instructions and        *)
(* preCall for each of its call sites, in program order; otherInst is      *)
(* never announced for a call-like instruction, so the otherInst branch of *)
(* constructDynamicCall is not taken.                                      *)
(***************************************************************************)
\* the announcements of a hook sequence that are otherInst or preCall
Announcements(hooks) ==
    SelectSeq(hooks, LAMBDA h : h.hook \in {"otherInst", "preCall"})

\* what the walk of F has to announce: one hook per instruction, in order
ProgramOrder(F) ==
    [i \in DOMAIN ir[F] |->
        Hook(IF isCallBase(ir[F][i]) THEN "preCall" ELSE "otherInst", <<F, i>>)]

OtherInstOnlyForOthers ==
    \A i \in DOMAIN hookLog :
      hookLog[i].hook = "otherInst" => ~isCallBase(InstOf(hookLog[i].inst))

OtherInstInOrder ==
    /\ []OtherInstOnlyForOthers
    /\ [][\A F \in DOMAIN ir :
            Scans(F) => Announcements(hookLog') = ProgramOrder(F)]_vars
    /\ [][\A n \in Insts :
            Resolves(n) =>
              \A i \in DOMAIN hookLog' : hookLog'[i].hook # "otherInst"]_vars
    /\ [](\A F \in DOMAIN scans : scans[F] = 1)

\* the latest walk was the one of g, a single non-call instruction, after
\* the walk of a main with a non-call instruction before its call site
OtherInstInOrderWitness ==
    /\ pc = "while"
    /\ "main" \in VisitedFunctions
    /\ ir["main"][1] = OtherInst
    /\ isCallBase(ir["main"][2])
    /\ ir["g"] = <<OtherInst>>
    /\ hookLog = <<Hook("otherInst", <<"g", 1>>)>>
    /\ \E F \in DOMAIN scans : F # "g"

(***************************************************************************)
(* C32. Worklist drained at exit: when buildCallGraph leaves its loop and  *)
(* returns, FunctionWL is empty: every function that was enqueued, as a    *)
(* seed, as the target of a static edge or as the target of a dynamic      *)
(* edge, was popped and passed to processFunction, which walked it unless  *)
(* it is a declaration.                                                    *)
(***************************************************************************)
WorkListDrainedAtExit ==
    pc \in {"warn", "done"} =>
      /\ FunctionWL = <<>>
      /\ \A F \in Seeds \cup Callees : F \in VisitedFunctions \/ isDeclaration(F)
      /\ \A F \in VisitedFunctions : F \in DOMAIN scans

\* the construction returned after two passes or more with a static and a
\* dynamic edge, and with a declaration among the enqueued targets
WorkListDrainedAtExitWitness ==
    /\ pc = "done"
    /\ passes >= 2
    /\ FunctionWL = <<>>
    /\ \E n \in DOMAIN IndirectCalls : IndirectCalls[n] = 2
    /\ \E s \in VisitedStaticSites : HasEdge(s[3], s[2])
    /\ Callees \cap Declarations # {}
    /\ Callees \cap VisitedFunctions # {}

(***************************************************************************)
(* C33. The counter never exceeds the edges: in every reachable state, for *)
(* every site n recorded in IndirectCalls, IndirectCalls[n] is at most the *)
(* number of edges labelled n that leave the vertex of n's function,       *)
(* whatever the resolver answers.                                          *)
(***************************************************************************)
CountAtMostEdges ==
    \A n \in DOMAIN IndirectCalls : IndirectCalls[n] <= Cardinality(EdgesAt(n))

\* a site answered with one function and later with the two others: its
\* count is 2 and it has three edges
CountAtMostEdgesWitness ==
    \E n \in DOMAIN IndirectCalls :
      /\ IndirectCalls[n] = 2
      /\ Cardinality(EdgesAt(n)) = 3
      /\ TargetsAt(n) = Funcs

(***************************************************************************)
(* C34. Query duality on the finished graph: for every call-like           *)
(* instruction n and function f, f occurs in getCalleesOfCallAt(n) exactly *)
(* as many times as n occurs in getCallersOf(f); getCallersOf(f) has one   *)
(* entry per in-edge of the vertex of f and is empty when f has no vertex. *)
(***************************************************************************)
\* how often x occurs in the sequence r
Occurrences(r, x) == Cardinality({i \in DOMAIN r : r[i] = x})

\* the positions of the edges that enter the vertex of f
InEdges(f) ==
    {i \in DOMAIN Edges :
        f \in DOMAIN FunctionVertexMap /\ Edges[i].tgt = FunctionVertexMap[f]}

\* the answer r to getCallersOf(f) is dual to the answers to getCalleesOfCallAt
CallersDual(f, r) ==
    /\ Len(r) = Cardinality(InEdges(f))
    /\ f \notin DOMAIN FunctionVertexMap => r = <<>>
    /\ \A n \in Insts :
         isCallBase(InstOf(n)) =>
           Occurrences(r, n) = Occurrences(getCalleesOfCallAtImpl(n).Callees, f)

\* the answer r to getCalleesOfCallAt(n) is dual to the answers to getCallersOf
CalleesDual(n, r) ==
    \A f \in DOMAIN ir :
      isCallBase(InstOf(n)) => Occurrences(r, f) = Occurrences(getCallersOfImpl(f), n)

QueryDuality ==
    /\ lastQuery.query = "getCallersOf" => CallersDual(lastQuery.arg, lastQuery.result)
    /\ lastQuery.query = "getCalleesOfCallAt" =>
         CalleesDual(lastQuery.arg, lastQuery.result)

\* the callers of a function with two in-edges from different sites were
\* asked for, in a graph in which another function has no vertex
QueryDualityWitness ==
    /\ lastQuery.query = "getCallersOf"
    /\ Len(lastQuery.result) = 2
    /\ lastQuery.result[1] # lastQuery.result[2]
    /\ OutEdges(lastQuery.arg) # {}
    /\ \E f \in DOMAIN ir : f \notin DOMAIN FunctionVertexMap

(***************************************************************************)
(* C35. Resolve-after-scan ordering: within every outer pass all           *)
(* processFunction walks precede all resolve queries; every recorded site, *)
(* the sites recorded in that same pass included, is queried exactly once  *)
(* per pass, with no short-circuit after a site reported new targets; and  *)
(* at termination no function was walked after the last resolve query of   *)
(* any recorded site.                                                      *)
(***************************************************************************)
\* the range-for of the current pass is over, or the loop was left
PassOver == (pc = "for" /\ todo = {}) \/ pc \in {"warn", "done"}

\* no site was queried twice in the current pass, and when the pass is over
\* every recorded site was queried once
EverySiteOncePerPass ==
    /\ \A n \in BagToSet(asked) : CopiesIn(n, asked) = 1 /\ n \in DOMAIN IndirectCalls
    /\ PassOver => BagToSet(asked) = DOMAIN IndirectCalls

\* a walk happens before every query of its pass; a query neither walks a
\* function nor records a site, and the range-for is left only at its end
ScansBeforeQueries ==
    /\ (\E F \in DOMAIN ir : Scans(F)) =>
          /\ asked = EmptyBag
          /\ asked' = EmptyBag
          /\ ResolveQueries(hookLog') = {}
    /\ pc = "for" =>
          /\ scans' = scans
          /\ VisitedFunctions' = VisitedFunctions
          /\ DOMAIN IndirectCalls' = DOMAIN IndirectCalls
          /\ pc' \in {"for", "do", "warn"}
          /\ pc' # "for" => todo = {}
    /\ (\E n \in Insts : Resolves(n)) => ResolveQueries(hookLog') # {}

ResolveAfterScan ==
    /\ []EverySiteOncePerPass
    /\ [][ScansBeforeQueries]_vars

\* the second pass is over: it walked f and recorded a site of f, and its
\* range-for queried that site and the site of main after one of them had
\* reported new targets
ResolveAfterScanWitness ==
    /\ pc = "for"
    /\ todo = {}
    /\ passes = 2
    /\ ~FixpointReached
    /\ BagToSet(asked) = {<<"main", 1>>, <<"f", 1>>}
    /\ IndirectCalls[<<"f", 1>>] > 0
    /\ Len(hookLog) = 2

====
